---- MODULE Spec2Model ----
(***************************************************************************)
(* A model of the YouTube -> Telegram notifier: the bot service            *)
(* (src/src/services/bot_service.py), its channel registry                 *)
(* (firebase_service.py), its pending-video buffer (redis_service.py) and  *)
(* its messaging sink (telegram_service.py).                               *)
(*                                                                         *)
(* The three daemon threads started by YouTubeBotService.start run their   *)
(* jobs concurrently: each job is cut into steps at the calls it makes to  *)
(* the shared stores, and the steps of different threads interleave.       *)
(***************************************************************************)
EXTENDS Integers, Sequences, FiniteSets, TLC

VARIABLES
    init_mode,        \* BotConfig.init_mode
    faulty,           \* whether the external collaborators may fail transiently
    yt_subscriptions, \* the account's subscriptions at YouTube: channel_id -> snippet, None if not subscribed
    overlap,          \* whether the jobs of the three threads may overlap in time
    subs,             \* Firestore collection 'subscriptions': channel_id -> document
    videos,           \* Firestore collection 'videos': the video ids that have a document
    last_subs_sync,   \* Firestore bot_state/sync_info.last_subs_sync
    channels_cache,   \* FirebaseService._channels_cache
    cache_timestamp,  \* FirebaseService._cache_timestamp
    redis_videos,     \* Redis list  {app}:videos:{date}
    redis_filtered,   \* Redis key   {app}:filtered_count:{date}
    today,            \* the current UTC date
    summary_sent,     \* summary messages delivered to the Telegram chat
    new_sub_sent,     \* new-subscription messages delivered, per channel
    poll,             \* the video-poll thread: position and locals of _poll_videos_once
    poll_calls,       \* the calls the current poll cycle has made: <<operation, channel_id, video_id>>
    last_polled,      \* per channel, the latest_video the previous poll of it was given
    buffer_added,     \* every <<channel_id, video_id>> ever handed to store_video
    sync,             \* the channel-sync thread: position and locals of _sync_subscriptions
    summary,          \* the summary thread: position and locals of _send_daily_summary
    probe,            \* a direct caller of one service: the call it made last and what it got back
    process,          \* the process: how far startup got and what was available when it began
    schedule,         \* one scheduling loop: its clock, its croniter and the runs of its job
    stub,             \* a caller of NullFirebaseService: the call it made last and what it got back
    youtube           \* YouTubeService: its cached client and the fetch_all_subscriptions call under way

fbVars    == <<subs, videos, last_subs_sync, channels_cache, cache_timestamp>>
redisVars == <<redis_videos, redis_filtered>>
tgVars    == <<summary_sent, new_sub_sent>>
pollVars  == <<poll, poll_calls, last_polled, buffer_added>>
cfgVars   == <<init_mode, faulty, overlap, today>>
hostVars  == <<process, schedule, stub, youtube>>
vars      == <<init_mode, faulty, yt_subscriptions, overlap, subs, videos, last_subs_sync, channels_cache,
               cache_timestamp, redis_videos, redis_filtered, today, summary_sent,
               new_sub_sent, poll, poll_calls, last_polled, buffer_added, sync, summary,
               probe, process, schedule, stub, youtube>>

----------------------------------------------------------------------------
(* Bounds of the model *)

MaxBuffer   == 2   \* entries a day's video list may hold before polls stop adding
MaxFiltered == 2   \* largest filtered count explored
MaxMsgs     == 2   \* largest number of delivered messages of one kind explored

(* Python's None: the empty tuple where the value is otherwise a tuple or a
   record, NoneStr where it is otherwise a string *)
None         == <<>>
NoneStr      == "None"
Some(x)      == <<x>>

(* The identifiers the model draws its inputs from *)
ChannelOrder == <<"UC1", "UC2">>     \* document ids, in the order Firestore lists them
ChannelIds   == {ChannelOrder[i] : i \in 1..Len(ChannelOrder)}
VideoIds     == {"v1", "v2", "s1"}
DateOrder    == <<"D1", "D2">>             \* UTC dates, in the order they come
Dates        == {DateOrder[i] : i \in 1..Len(DateOrder)}

(* What the subscriptions API reports of a channel: snippet.title and a thumbnail url *)
Snippets     == {[title |-> "", thumbnail |-> NoneStr],
                 [title |-> "T1", thumbnail |-> "th1"]}

----------------------------------------------------------------------------
(* Helpers *)

RECURSIVE SelectSeq2(_, _)
SelectSeq2(order, S) ==
    IF order = <<>> THEN <<>>
    ELSE IF Head(order) \in S
         THEN <<Head(order)>> \o SelectSeq2(Tail(order), S)
         ELSE SelectSeq2(Tail(order), S)

Range(s) == {s[i] : i \in 1..Len(s)}

(* Python truthiness of an Optional[str] *)
Truthy(s) == s \notin {"", NoneStr}

(* str.startswith, on a string given as the sequence of its pieces *)
startswith(s, prefix) ==
    /\ Len(s) >= Len(prefix)
    /\ SubSeq(s, 1, Len(prefix)) = prefix

(* The outcomes of a call to an external collaborator: it may fail only when
   the environment is faulty *)
Outcomes == IF faulty THEN {TRUE, FALSE} ELSE {TRUE}

----------------------------------------------------------------------------
(* models/channel.py, models/video.py *)

Channel(channel_id, title, thumbnail, last_video_id, notify, last_upload_at) ==
    [channel_id |-> channel_id, title |-> title, thumbnail |-> thumbnail,
     last_video_id |-> last_video_id, notify |-> notify,
     last_upload_at |-> last_upload_at]

(* A Channel whose notify defaults to False *)
muted_channel(channel_id, title, thumbnail) ==
    Channel(channel_id, title, thumbnail, "", FALSE, None)

(* Channel(channel_id=.., title=.., thumbnail=..): the dataclass defaults *)
NewChannel(channel_id, title, thumbnail) ==
    Channel(channel_id, title, thumbnail, "", TRUE, None)

(* A link is the sequence of the pieces of its URL; None where there is none *)
WatchPrefix   == <<"https://www.youtube.com", "/watch?v=">>
WatchLink(v)  == <<"https://www.youtube.com", "/watch?v=", v>>
ShortsLink(v) == <<"https://www.youtube.com", "/shorts/", v>>

(* The ISO-8601 string from_rss_entry builds from published_parsed of video v *)
IsoOf(v) == <<"iso", v>>

(* datetime.fromisoformat(s) *)
fromisoformat(s) == <<"datetime", s[2]>>

(* datetime.isoformat() *)
isoformat(d) == <<"iso", d[2]>>

Video(video_id, channel_id, link, published_at) ==
    [video_id |-> video_id, channel_id |-> channel_id, link |-> link,
     published_at |-> published_at]

(* What feed.entries[0] can be for a channel: a video with a watch link and no
   published_parsed, one with a watch link and published_parsed, and a short *)
FeedEntries ==
    {[yt_videoid |-> "v1", link |-> "watch",  published_parsed |-> FALSE],
     [yt_videoid |-> "v2", link |-> "watch",  published_parsed |-> TRUE],
     [yt_videoid |-> "s1", link |-> "shorts", published_parsed |-> TRUE]}

(* Video.from_rss_entry *)
from_rss_entry(entry, channel_id) ==
    Video(entry.yt_videoid, channel_id,
          IF entry.link = "watch" THEN WatchLink(entry.yt_videoid)
                                  ELSE ShortsLink(entry.yt_videoid),
          IF entry.published_parsed THEN IsoOf(entry.yt_videoid) ELSE None)

(* from_rss_entry on an entry that carries neither yt_videoid nor id *)
NoIdVideo(channel_id) == Video(NoneStr, channel_id, None, None)

(* RSSService.get_latest_video: None on an empty feed or on any error *)
get_latest_video(channel) ==
    {None, NoIdVideo(channel.channel_id)}
        \cup {from_rss_entry(e, channel.channel_id) : e \in FeedEntries}

(* Channel.to_dict: the document save_subscription writes *)
to_dict(channel) ==
    [channel_id |-> channel.channel_id, title |-> channel.title,
     last_video_id |-> channel.last_video_id, notify |-> channel.notify,
     thumbnail |-> channel.thumbnail,
     last_upload_at |-> IF channel.last_upload_at = None THEN None
                        ELSE isoformat(channel.last_upload_at)]

(* The Channel that get_all_channels and get_channel build from a document *)
from_doc(channel_id, data) ==
    Channel(channel_id, data.title, data.thumbnail, data.last_video_id, data.notify,
            IF data.last_upload_at = None THEN None
            ELSE fromisoformat(data.last_upload_at))

----------------------------------------------------------------------------
(* services/firebase_service.py: FirebaseService.  Every operation takes the
   service's state fb and the outcome db_ok of its Firestore call, and yields
   the new state and what it returns. *)

FB == [subs |-> subs, videos |-> videos, last_subs_sync |-> last_subs_sync,
       channels_cache |-> channels_cache, cache_timestamp |-> cache_timestamp]

SetFB(fb) ==
    /\ subs' = fb.subs
    /\ videos' = fb.videos
    /\ last_subs_sync' = fb.last_subs_sync
    /\ channels_cache' = fb.channels_cache
    /\ cache_timestamp' = fb.cache_timestamp

Ret(fb, result) == [fb |-> fb, result |-> result]

(* firestore.SERVER_TIMESTAMP *)
SERVER_TIMESTAMP == "timestamp"

_is_cache_valid(fb) ==
    IF fb.cache_timestamp = NoneStr
       \/ fb.channels_cache = None
       \/ fb.channels_cache = Some(<<>>)
    THEN FALSE
    ELSE fb.cache_timestamp = "fresh"

_invalidate_cache(fb) ==
    [fb EXCEPT !.channels_cache = None, !.cache_timestamp = NoneStr]

(* video.channel_ref: the attributes a Video has are the fields of its record *)
hasattr(obj, name) == name \in DOMAIN obj

save_video(fb, video, db_ok) ==
    IF ~hasattr(video, "channel_ref")
    THEN Ret(fb, FALSE)     \* AttributeError, caught by the except clause
    ELSE IF db_ok
         THEN Ret([fb EXCEPT !.videos = @ \cup {video.video_id}], TRUE)
         ELSE Ret(fb, FALSE)

save_subscription(fb, channel, db_ok) ==
    IF db_ok
    THEN Ret(_invalidate_cache(
                 [fb EXCEPT !.subs[channel.channel_id] = to_dict(channel)]), TRUE)
    ELSE Ret(fb, FALSE)

update_channel_last_video(fb, channel_id, video_id, db_ok) ==
    IF db_ok /\ fb.subs[channel_id] /= None
    THEN Ret([fb EXCEPT !.subs[channel_id].last_video_id = video_id], TRUE)
    ELSE Ret(fb, FALSE)

update_channel_notify_preference(fb, channel_id, notify, db_ok) ==
    IF db_ok /\ fb.subs[channel_id] /= None
    THEN Ret(_invalidate_cache(
                 [fb EXCEPT !.subs[channel_id].notify = notify]), TRUE)
    ELSE Ret(fb, FALSE)

update_last_sync_time(fb, db_ok) ==
    IF db_ok
    THEN Ret([fb EXCEPT !.last_subs_sync = SERVER_TIMESTAMP], TRUE)
    ELSE Ret(fb, FALSE)

(* The documents of the collection, as Channels, in the order Firestore lists them *)
StoredChannels(fb) ==
    LET ids == SelectSeq2(ChannelOrder, {c \in ChannelIds : fb.subs[c] /= None})
    IN  [i \in 1..Len(ids) |-> from_doc(ids[i], fb.subs[ids[i]])]

get_all_channels(fb, db_ok) ==
    IF _is_cache_valid(fb)
    THEN Ret(fb, fb.channels_cache[1])
    ELSE IF db_ok
         THEN Ret([fb EXCEPT !.channels_cache = Some(StoredChannels(fb)),
                             !.cache_timestamp = "fresh"],
                  StoredChannels(fb))
         ELSE Ret(fb, <<>>)

(* get_channel returns [raised, channel]: raised is "" when a Channel is returned *)
get_channel(fb, channel_id, db_ok) ==
    IF _is_cache_valid(fb) /\ fb.channels_cache /= None /\ fb.channels_cache /= Some(<<>>)
    THEN LET hit == {ch \in Range(fb.channels_cache[1]) : ch.channel_id = channel_id}
         IN  IF hit /= {}
             THEN [raised |-> "", channel |-> CHOOSE ch \in hit : TRUE]
             ELSE [raised |-> "KeyError", channel |-> None]
    ELSE IF ~db_ok
         THEN [raised |-> "Exception", channel |-> None]
         ELSE IF fb.subs[channel_id] = None
              THEN [raised |-> "KeyError", channel |-> None]
              ELSE [raised |-> "", channel |-> from_doc(channel_id, fb.subs[channel_id])]

channel_exists(fb, channel_id, db_ok) ==
    IF _is_cache_valid(fb) /\ fb.channels_cache /= None /\ fb.channels_cache /= Some(<<>>)
    THEN \E ch \in Range(fb.channels_cache[1]) : ch.channel_id = channel_id
    ELSE IF db_ok THEN fb.subs[channel_id] /= None ELSE FALSE

----------------------------------------------------------------------------
(* services/redis_service.py: RedisService.  rd is the Redis state: per date
   the list {app}:videos:{date} and the counter {app}:filtered_count:{date}
   (an absent list is the empty list, an absent counter reads as 0). *)

RD == [videos |-> redis_videos, filtered |-> redis_filtered]

SetRD(rd) ==
    /\ redis_videos' = rd.videos
    /\ redis_filtered' = rd.filtered

(* json.dumps of asdict(video) with the key stored_at added *)
dumps(video, stored_at) == video @@ [stored_at |-> stored_at]

(* json.loads, data.pop('stored_at'), then the Video built from the rest *)
loads(data) == [f \in DOMAIN data \ {"stored_at"} |-> data[f]]

(* A key that is always the one of the current date *)
key_of_today(date_str, now) == now

(* _get_videos_key / _get_filtered_count_key: the date that names the key *)
_get_videos_key(date_str, now) == IF date_str = NoneStr THEN now ELSE date_str

store_video(rd, video, now, redis_ok) ==
    IF redis_ok
    THEN [rd EXCEPT !.videos[_get_videos_key(NoneStr, now)] = <<dumps(video, now)>> \o @]
    ELSE rd

get_stored_videos(rd, date_str, now, redis_ok) ==
    IF redis_ok
    THEN LET l == rd.videos[_get_videos_key(date_str, now)]
         IN  [i \in 1..Len(l) |-> loads(l[i])]
    ELSE <<>>

increment_filtered_count(rd, count, date_str, now, redis_ok) ==
    IF redis_ok
    THEN [rd EXCEPT !.filtered[_get_videos_key(date_str, now)] = @ + count]
    ELSE rd

get_filtered_count(rd, date_str, now, redis_ok) ==
    IF redis_ok THEN rd.filtered[_get_videos_key(date_str, now)] ELSE 0

(* The two reads of a date that _send_daily_summary makes, with the list
   popped instead of ranged over *)
drain_popping(rd, date_str, now, ok1, ok2) ==
    [rd |-> IF ok1 THEN [rd EXCEPT !.videos[_get_videos_key(date_str, now)] = <<>>]
            ELSE rd,
     videos |-> get_stored_videos(rd, date_str, now, ok1),
     filtered_count |-> get_filtered_count(rd, date_str, now, ok2)]

(* get_stored_videos, then get_filtered_count, of one date: lrange and get
   write nothing.  Yields [rd, videos, filtered_count]. *)
drain(rd, date_str, now, ok1, ok2) ==
    [rd |-> rd,
     videos |-> get_stored_videos(rd, date_str, now, ok1),
     filtered_count |-> get_filtered_count(rd, date_str, now, ok2)]

(* A clear that deletes the list and leaves the counter *)
clear_list_only(rd, date_str, now, redis_ok) ==
    IF redis_ok
    THEN [rd |-> [rd EXCEPT !.videos[_get_videos_key(date_str, now)] = <<>>],
          result |-> Len(rd.videos[_get_videos_key(date_str, now)])]
    ELSE [rd |-> rd, result |-> 0]

(* clear_stored_videos returns [rd, result]: result is the llen read before the deletes *)
clear_stored_videos(rd, date_str, now, redis_ok) ==
    IF redis_ok
    THEN [rd |-> [rd EXCEPT !.videos[_get_videos_key(date_str, now)] = <<>>,
                            !.filtered[_get_videos_key(date_str, now)] = 0],
          result |-> Len(rd.videos[_get_videos_key(date_str, now)])]
    ELSE [rd |-> rd, result |-> 0]

----------------------------------------------------------------------------
(* services/telegram_service.py: TelegramService *)

(* The methods the class defines *)
TelegramMethods ==
    {"send_message", "send_photo", "send_video_notification",
     "send_startup_message", "send_new_subscription_notification"}

(* send_message: True when the post went through, False when it raised *)
send_message(sink_ok) == sink_ok

send_new_subscription_notification(sink_ok) == send_message(sink_ok)

----------------------------------------------------------------------------
(* services/bot_service.py: YouTubeBotService *)

(* str.lower, on the pieces of a link *)
lower(piece) ==
    CASE piece = "HTTPS://WWW.YOUTUBE.COM" -> "https://www.youtube.com"
      [] piece = "/WATCH?V=" -> "/watch?v="
      [] piece = "Token has been expired" -> "token has been expired"
      [] piece = "Unauthorized" -> "unauthorized"
      [] piece = "Network timeout" -> "network timeout"
      [] OTHER -> piece

(* A classifier that matches the prefix whatever the case of the link *)
is_watch_link_any_case(video) ==
    IF video.link = None
    THEN FALSE
    ELSE startswith([i \in 1..Len(video.link) |-> lower(video.link[i])], WatchPrefix)

(* A classifier that looks at the host of the link only *)
is_youtube_link(video) ==
    IF video.link = None
    THEN FALSE
    ELSE startswith(video.link, <<"https://www.youtube.com">>)

(* A classifier that accepts whatever has a link *)
accepts_any_link(video) == video.link /= None

(* BotService._is_full_youtube_video *)
_is_full_youtube_video(video) ==
    IF video.link = None
    THEN FALSE
    ELSE startswith(video.link, WatchPrefix)

(* A candidate list that keeps every channel *)
all_channels(channels) == channels

(* channels_to_poll = [channel for channel in channels if channel.notify] *)
channels_to_poll(channels) == SelectSeq(channels, LAMBDA channel : channel.notify)

(* A _process_new_video that moves the cursor to a video it filters *)
process_advancing_on_short(fb, channel, video, ok1, ok2, ok3) ==
    [fb |-> update_channel_last_video(fb, channel.channel_id, video.video_id, ok2).fb,
     result |-> _is_full_youtube_video(video),
     calls |-> {<<"update_channel_last_video", channel.channel_id, video.video_id>>}]

(* _process_new_video returns [fb, result, calls]: the new registry state, the
   value returned and the registry calls made *)
_process_new_video(fb, channel, video, ok1, ok2, ok3) ==
    IF ~_is_full_youtube_video(video)
    THEN [fb |-> fb, result |-> FALSE, calls |-> {}]
    ELSE LET r1 == save_video(fb, video, ok1)
             r2 == update_channel_last_video(r1.fb, channel.channel_id,
                                             video.video_id, ok2)
             updated_channel ==
                 Channel(channel.channel_id, channel.title, channel.thumbnail,
                         video.video_id, channel.notify,
                         fromisoformat(video.published_at))
             r3 == save_subscription(r2.fb, updated_channel, ok3)
             called == {<<"save_video", channel.channel_id, video.video_id>>,
                        <<"update_channel_last_video", channel.channel_id,
                          video.video_id>>}
         IN  IF video.published_at /= None
             THEN [fb |-> r3.fb, result |-> TRUE,
                   calls |-> called \cup {<<"save_subscription", channel.channel_id,
                                            video.video_id>>}]
             ELSE [fb |-> r2.fb, result |-> TRUE, calls |-> called]

PollIdle == [pc |-> "idle", channels |-> <<>>, channels_to_poll |-> <<>>, idx |-> 1,
             new_videos |-> <<>>, firestore_filtered_count |-> 0]

SyncIdle == [pc |-> "idle", subscription_tuples |-> <<>>, idx |-> 1, is_new |-> FALSE,
             channel |-> None, newly_added |-> <<>>]

(* log is the line the job printed last *)
SummaryIdle == [pc |-> "idle", stored_videos |-> <<>>, filtered_count |-> 0,
                log |-> ""]

(* No call made yet by the direct caller *)
ProbeIdle == [op |-> "", prev |-> "", date_str |-> NoneStr, video |-> None,
              videos |-> <<>>, count |-> 0, result |-> FALSE]

(* A job may start when jobs may overlap, or when no other job is running *)
MayStart ==
    \/ overlap
    \/ poll.pc = "idle" /\ sync.pc = "idle" /\ summary.pc = "idle"

(* _poll_videos_once, lines 259-268: read the registry, keep the notify=true channels *)
PollStart ==
    /\ poll.pc = "idle"
    /\ MayStart
    /\ \E db_ok \in Outcomes :
         LET r == get_all_channels(FB, db_ok)
             polled == channels_to_poll(r.result)
         IN  /\ SetFB(r.fb)
             /\ poll' = [PollIdle EXCEPT !.pc = "loop", !.channels = r.result,
                                         !.channels_to_poll = polled]
             /\ last_polled' =
                    [c \in ChannelIds |->
                        IF \E i \in 1..Len(polled) : polled[i].channel_id = c
                        THEN last_polled[c] ELSE None]
    /\ poll_calls' = {}
    /\ UNCHANGED <<cfgVars, yt_subscriptions, probe, hostVars, redisVars, tgVars, buffer_added, sync, summary>>

(* An iteration that takes the feed's entry v1 whatever the latest entry is *)
iteration_on_older_entry(fb, channel, latest_video, ok1, ok2, ok3) ==
    LET older == Video("v1", channel.channel_id, WatchLink("v1"), None)
        p == _process_new_video(fb, channel, older, ok1, ok2, ok3)
    IN  [fb |-> p.fb, new_videos |-> Append(poll.new_videos, older),
         firestore_filtered_count |-> poll.firestore_filtered_count,
         calls |-> p.calls]

(* What one iteration of the loop over channels_to_poll does with latest_video:
   [fb, new_videos, firestore_filtered_count, calls] *)
PollIteration(fb, channel, latest_video, ok1, ok2, ok3) ==
    LET p == _process_new_video(fb, channel, latest_video, ok1, ok2, ok3)
        skip == [fb |-> fb, new_videos |-> poll.new_videos,
                 firestore_filtered_count |-> poll.firestore_filtered_count,
                 calls |-> {}]
    IN  IF latest_video = None
        THEN skip
        ELSE IF ~Truthy(latest_video.video_id)
        THEN skip
        ELSE IF ~Truthy(channel.last_video_id)
        THEN [fb |-> p.fb,
              new_videos |-> IF p.result /\ ~init_mode
                             THEN Append(poll.new_videos, latest_video)
                             ELSE poll.new_videos,
              firestore_filtered_count |->
                  IF ~p.result THEN poll.firestore_filtered_count + 1
                  ELSE poll.firestore_filtered_count,
              calls |-> p.calls]
        ELSE IF latest_video.video_id /= channel.last_video_id
        THEN [fb |-> p.fb,
              new_videos |-> IF p.result THEN Append(poll.new_videos, latest_video)
                             ELSE poll.new_videos,
              firestore_filtered_count |->
                  IF ~p.result THEN poll.firestore_filtered_count + 1
                  ELSE poll.firestore_filtered_count,
              calls |-> p.calls]
        ELSE skip

(* _poll_videos_once, lines 270-290: one channel of the loop *)
PollChannel ==
    /\ poll.pc = "loop"
    /\ poll.idx <= Len(poll.channels_to_poll)
    /\ LET channel == poll.channels_to_poll[poll.idx]
       IN  \E latest_video \in get_latest_video(channel) :
           \E ok1 \in Outcomes, ok2 \in Outcomes, ok3 \in Outcomes :
             LET it == PollIteration(FB, channel, latest_video, ok1, ok2, ok3)
             IN  /\ Len(redis_videos[today]) + Len(it.new_videos) <= MaxBuffer
                 /\ redis_filtered[today] + it.firestore_filtered_count <= MaxFiltered
                 /\ SetFB(it.fb)
                 /\ poll' = [poll EXCEPT !.idx = @ + 1,
                                         !.new_videos = it.new_videos,
                                         !.firestore_filtered_count =
                                             it.firestore_filtered_count]
                 /\ poll_calls' = poll_calls
                        \cup {<<"get_latest_video", channel.channel_id, "">>}
                        \cup it.calls
                 /\ last_polled' = [last_polled EXCEPT ![channel.channel_id] = latest_video]
    /\ UNCHANGED <<cfgVars, yt_subscriptions, probe, hostVars, redisVars, tgVars, buffer_added, sync, summary>>

(* A loop that stores the first of the cycle's videos and stops *)
store_first_only(rd, new_videos, now, oks) ==
    IF new_videos = <<>> THEN rd
    ELSE store_video(rd, Head(new_videos), now, Head(oks))

RECURSIVE StoreAll(_, _, _, _)
(* for video in new_videos: self._redis_service.store_video(video) *)
StoreAll(rd, new_videos, now, oks) ==
    IF new_videos = <<>> THEN rd
    ELSE StoreAll(store_video(rd, Head(new_videos), now, Head(oks)),
                  Tail(new_videos), now, Tail(oks))

(* _poll_videos_once, lines 292-308: hand the cycle's videos and filtered count to Redis *)
PollFinish ==
    /\ poll.pc = "loop"
    /\ poll.idx > Len(poll.channels_to_poll)
    /\ \E oks \in [1..Len(poll.new_videos) -> Outcomes], ok_count \in Outcomes :
         LET rd1 == StoreAll(RD, poll.new_videos, today, oks)
             rd2 == IF poll.firestore_filtered_count > 0
                    THEN increment_filtered_count(rd1, poll.firestore_filtered_count,
                                                  NoneStr, today, ok_count)
                    ELSE rd1
             stored == {i \in 1..Len(poll.new_videos) : oks[i]}
         IN  /\ SetRD(rd2)
             /\ buffer_added' =
                    [k \in DOMAIN buffer_added |->
                        buffer_added[k]
                        + Cardinality({i \in stored :
                              <<poll.new_videos[i].channel_id,
                                poll.new_videos[i].video_id>> = k})]
    /\ poll' = PollIdle
    /\ poll_calls' = {}
    /\ UNCHANGED <<cfgVars, yt_subscriptions, probe, hostVars, fbVars, tgVars, last_polled, sync, summary>>

(* YouTubeService.fetch_all_subscriptions: the (channel_id, title, thumbnail)
   tuples of the subscriptions, or of those gathered before a page failed *)
fetch_all_subscriptions ==
    LET ids == SelectSeq2(ChannelOrder, {c \in ChannelIds : yt_subscriptions[c] /= None})
    IN  {[i \in 1..n |-> <<ids[i], yt_subscriptions[ids[i]].title,
                           yt_subscriptions[ids[i]].thumbnail>>] : n \in 0..Len(ids)}

(* _sync_subscriptions, lines 206-207 *)
SyncStart ==
    /\ sync.pc = "idle"
    /\ MayStart
    /\ \E subscription_tuples \in fetch_all_subscriptions :
         sync' = [SyncIdle EXCEPT !.pc = "check",
                                  !.subscription_tuples = subscription_tuples]
    /\ UNCHANGED <<cfgVars, yt_subscriptions, probe, hostVars, fbVars, redisVars, tgVars, pollVars, summary>>

(* title or channel_id *)
TitleOr(title, channel_id) == IF Truthy(title) THEN title ELSE channel_id

(* _sync_subscriptions, lines 209-230: channel_exists, then the Channel to save;
   an exception of get_channel ends the cycle in the except clause *)
SyncCheck ==
    /\ sync.pc = "check"
    /\ sync.idx <= Len(sync.subscription_tuples)
    /\ LET t == sync.subscription_tuples[sync.idx]
           channel_id == t[1]
           title == t[2]
           thumbnail == t[3]
       IN  \E ok1 \in Outcomes, ok2 \in Outcomes :
             LET is_new == ~channel_exists(FB, channel_id, ok1)
                 g == get_channel(FB, channel_id, ok2)
                 existing_channel == g.channel
             IN  IF is_new
                 THEN sync' = [sync EXCEPT
                                  !.pc = "save", !.is_new = TRUE,
                                  !.channel = NewChannel(channel_id,
                                                  TitleOr(title, channel_id), thumbnail)]
                 ELSE IF g.raised /= ""
                 THEN sync' = SyncIdle
                 ELSE sync' = [sync EXCEPT
                                  !.pc = "save", !.is_new = FALSE,
                                  !.channel = Channel(channel_id,
                                                  TitleOr(title, channel_id), thumbnail,
                                                  existing_channel.last_video_id,
                                                  existing_channel.notify,
                                                  existing_channel.last_upload_at)]
    /\ UNCHANGED <<cfgVars, yt_subscriptions, probe, hostVars, fbVars, redisVars, tgVars, pollVars, summary>>

(* _sync_subscriptions, lines 232-236: save_subscription, then newly_added *)
SyncSave ==
    /\ sync.pc = "save"
    /\ \E db_ok \in Outcomes :
         SetFB(save_subscription(FB, sync.channel, db_ok).fb)
    /\ sync' = [sync EXCEPT !.pc = "check", !.idx = @ + 1,
                            !.newly_added = IF sync.is_new
                                            THEN Append(@, sync.channel) ELSE @]
    /\ last_polled' = [c \in ChannelIds |-> None]
    /\ UNCHANGED <<cfgVars, yt_subscriptions, probe, hostVars, redisVars, tgVars, poll, poll_calls, buffer_added, summary>>

(* _sync_subscriptions, lines 238-248: update_last_sync_time, then one
   new-subscription message per newly added channel unless init_mode *)
SyncFinish ==
    /\ sync.pc = "check"
    /\ sync.idx > Len(sync.subscription_tuples)
    /\ \E db_ok \in Outcomes, oks \in [1..Len(sync.newly_added) -> Outcomes] :
         /\ SetFB(update_last_sync_time(FB, db_ok).fb)
         /\ new_sub_sent' =
                [c \in ChannelIds |->
                    new_sub_sent[c]
                    + Cardinality({i \in 1..Len(sync.newly_added) :
                          /\ sync.newly_added[i].channel_id = c
                          /\ ~init_mode
                          /\ send_new_subscription_notification(oks[i])})]
    /\ \A c \in ChannelIds : new_sub_sent'[c] <= MaxMsgs
    /\ sync' = SyncIdle
    /\ UNCHANGED <<cfgVars, yt_subscriptions, probe, hostVars, redisVars, summary_sent, pollVars, summary>>

(* _send_daily_summary, lines 166-172: read the day's list and counter *)
SummaryRead ==
    /\ summary.pc = "idle"
    /\ MayStart
    /\ \E ok1 \in Outcomes, ok2 \in Outcomes :
         LET stored_videos == get_stored_videos(RD, NoneStr, today, ok1)
             filtered_count == get_filtered_count(RD, NoneStr, today, ok2)
         IN  summary' = IF stored_videos = <<>> /\ filtered_count = 0
                        THEN [SummaryIdle EXCEPT !.log = "No summary to send"]
                        ELSE [pc |-> "send", stored_videos |-> stored_videos,
                              filtered_count |-> filtered_count,
                              log |-> "Generating daily video summary"]
    /\ UNCHANGED <<cfgVars, yt_subscriptions, probe, hostVars, fbVars, redisVars, tgVars, pollVars, sync>>

(* What the call self._telegram_service.send_video_summary_notification(..)
   can do: TelegramService defines no such method, so the attribute lookup
   raises AttributeError *)
send_video_summary_notification ==
    IF "send_video_summary_notification" \in TelegramMethods
    THEN {"returned"}
    ELSE {"AttributeError"}

(* A flush that clears the day's data before it dispatches *)
ClearThenSend(rd, now, sent, sink_ok, redis_ok) ==
    [rd |-> clear_stored_videos(rd, NoneStr, now, redis_ok).rd,
     delivered |-> IF sent = "returned" /\ send_message(sink_ok) THEN 1 ELSE 0,
     log |-> IF sent = "returned" THEN "Cleared videos and filtered count"
             ELSE "Error sending daily summary"]

(* _send_daily_summary, lines 174-188: the dispatch, then clear_stored_videos;
   an exception of the dispatch ends the job in the except clause.
   Yields [rd, delivered, log]. *)
SendAndClear(rd, now, sent, sink_ok, redis_ok) ==
    IF sent = "returned"
    THEN [rd |-> clear_stored_videos(rd, NoneStr, now, redis_ok).rd,
          delivered |-> IF send_message(sink_ok) THEN 1 ELSE 0,
          log |-> "Cleared videos and filtered count"]
    ELSE [rd |-> rd, delivered |-> 0, log |-> "Error sending daily summary"]

SummarySend ==
    /\ summary.pc = "send"
    /\ \E sent \in send_video_summary_notification,
          sink_ok \in Outcomes, redis_ok \in Outcomes :
         LET r == SendAndClear(RD, today, sent, sink_ok, redis_ok)
         IN  /\ SetRD(r.rd)
             /\ summary_sent' = summary_sent + r.delivered
             /\ summary_sent' <= MaxMsgs
             /\ summary' = [SummaryIdle EXCEPT !.log = r.log]
    /\ UNCHANGED <<cfgVars, yt_subscriptions, probe, hostVars, fbVars, new_sub_sent, pollVars, sync>>

(* A toggle that switches the preference on whatever it was *)
toggle_always_on(fb, channel_id, ok1, ok2) ==
    update_channel_notify_preference(fb, channel_id, TRUE, ok2)

(* BotService.toggle_channel_notifications: [fb, result].  get_channel, then
   update_channel_notify_preference with the negated notify; an exception of
   get_channel is caught and False returned *)
BotService_toggle_channel_notifications(fb, channel_id, ok1, ok2) ==
    LET g == get_channel(fb, channel_id, ok1)
    IN  IF g.raised /= ""
        THEN Ret(fb, FALSE)
        ELSE update_channel_notify_preference(fb, channel_id, ~g.channel.notify, ok2)

(* BotService.set_channel_notifications: [fb, result].  The update, then on
   success get_channel for the title to print; its exception is caught and
   False returned *)
BotService_set_channel_notifications(fb, channel_id, notify, ok1, ok2) ==
    LET u == update_channel_notify_preference(fb, channel_id, notify, ok1)
    IN  IF ~u.result
        THEN Ret(u.fb, FALSE)
        ELSE Ret(u.fb, get_channel(u.fb, channel_id, ok2).raised = "")

(* toggle_channel_notifications(channel_id) *)
toggle_channel_notifications(channel_id) ==
    /\ MayStart
    /\ \E ok1 \in Outcomes, ok2 \in Outcomes :
         SetFB(BotService_toggle_channel_notifications(FB, channel_id, ok1, ok2).fb)
    /\ last_polled' = [c \in ChannelIds |-> None]
    /\ UNCHANGED <<cfgVars, yt_subscriptions, probe, hostVars, redisVars, tgVars, poll, poll_calls, buffer_added,
                   sync, summary>>

(* set_channel_notifications(channel_id, notify) *)
set_channel_notifications(channel_id, notify) ==
    /\ MayStart
    /\ \E ok1 \in Outcomes, ok2 \in Outcomes :
         SetFB(BotService_set_channel_notifications(FB, channel_id, notify, ok1, ok2).fb)
    /\ last_polled' = [c \in ChannelIds |-> None]
    /\ UNCHANGED <<cfgVars, yt_subscriptions, probe, hostVars, redisVars, tgVars, poll, poll_calls, buffer_added,
                   sync, summary>>

(* Time passes: the cache grows older than _cache_ttl_minutes *)
CacheTtlElapses ==
    /\ MayStart
    /\ cache_timestamp = "fresh"
    /\ cache_timestamp' = "expired"
    /\ UNCHANGED <<cfgVars, yt_subscriptions, probe, hostVars, subs, videos, last_subs_sync, channels_cache, redisVars,
                   tgVars, pollVars, sync, summary>>

----------------------------------------------------------------------------
----------------------------------------------------------------------------
(* services/youtube_service.py: YouTubeService.  The text of an error is the
   set of the phrases it contains, each in the case it is written in. *)

(* The texts of the exceptions the subscriptions API raises *)
ErrorTexts ==
    {{"invalid_grant", "Token has been expired"},
     {"Token has been expired"},
     {"invalid_token"},
     {"Unauthorized"},
     {"Network timeout"}}

(* error_str.lower() *)
lower_text(error_str) == {lower(phrase) : phrase \in error_str}

(* auth_errors, lines 268-274 *)
auth_errors ==
    {"invalid_grant", "Token has been expired", "invalid_token", "unauthorized",
     "authentication required"}

(* _handle_api_error: [yt, result]; result is "retry" or NoneStr.
   _get_authenticated_client builds and caches a client when it succeeds. *)
_handle_api_error(yt, error, reauth_ok) ==
    IF \E auth_error \in auth_errors : auth_error \in lower_text(error)
    THEN [yt |-> [yt EXCEPT !._client = reauth_ok, !.cleared = @ + 1, !.reauth = @ + 1],
          result |-> IF reauth_ok THEN "retry" ELSE NoneStr]
    ELSE [yt |-> yt, result |-> NoneStr]

(* YouTubeService after __init__; no call of fetch_all_subscriptions under way.
   cleared and reauth count, within a call, the times the client was cleared
   and the re-authentications attempted. *)
YouTubeIdle == [pc |-> "idle", _client |-> FALSE, page |-> 1, items |-> <<>>,
                error |-> {}, handled |-> NoneStr, cleared |-> 0, reauth |-> 0]

----------------------------------------------------------------------------
(* services/firebase_service.py: NullFirebaseService.  Every method prints a
   line and returns a constant; the object has no field. *)

NullFirebaseService_is_available == FALSE

NullFirebaseService_save_video(video) == FALSE

NullFirebaseService_save_subscription(channel) == FALSE

NullFirebaseService_update_channel_last_video(channel_id, video_id) == FALSE

NullFirebaseService_get_all_channels == <<>>

(* raise ValueError("Firebase not available") *)
NullFirebaseService_get_channel(channel_id) == [raised |-> "ValueError", channel |-> None]

(* channel_exists answering True *)
null_exists_true(channel_id) == TRUE

NullFirebaseService_channel_exists(channel_id) == FALSE

NullFirebaseService_channels_exist_batch(channel_ids) == [c \in channel_ids |-> FALSE]

NullFirebaseService_update_last_sync_time == FALSE

NullFirebaseService_update_channel_notify_preference(channel_id, notify) == FALSE

NullFirebaseService_get_daily_stats == [reads |-> 0, writes |-> 0, date |-> "N/A"]

(* No call made yet on the stand-in *)
StubIdle == [op |-> "", prev |-> "", channel_id |-> NoneStr, video_id |-> NoneStr,
             video |-> None,
             channel |-> None, notify |-> FALSE, result |-> FALSE, raised |-> "",
             channels |-> <<>>, batch |-> <<>>, stats |-> <<>>]

----------------------------------------------------------------------------
(* services/bot_service.py: the scheduling loops.  Time is counted in ticks;
   the cron expression of a loop fires at every multiple of CronPeriod. *)

CronPeriod  == 2   \* ticks between two trigger times of the expression
MaxTime     == 6   \* latest trigger time explored
MaxDuration == 5   \* longest job run explored, in ticks
MaxLate     == 1   \* longest time.sleep may return after the time asked for

(* The first trigger time of the expression strictly after time t *)
NextTrigger(t) == t - (t % CronPeriod) + CronPeriod

(* A croniter that is started afresh from the clock at every call *)
get_next_from_now(sch) == NextTrigger(IF sch.now > sch.cur THEN sch.now ELSE sch.cur)

(* cron.get_next(datetime): the first trigger after the one the croniter
   returned last (after its start time on the first call); the croniter
   remembers what it returned *)
get_next(sch) == NextTrigger(sch.cur)

(* cron = croniter(cron_expr, datetime.now()), before the first turn of the loop *)
LoopAt(now) == [pc |-> "top", since |-> now, now |-> now, cur |-> now, next |-> 0,
                started |-> 0, runs |-> <<>>,
                thread |-> "video_thread", entered |-> now, initial |-> <<>>]

(* A thread of start() at the time its target is entered *)
ThreadAt(thread, now) == [LoopAt(now) EXCEPT !.pc = "start", !.thread = thread]

----------------------------------------------------------------------------
(* services/bot_service.py: construction and start of YouTubeBotService *)

LoopThreads == {"channel_thread", "video_thread", "summary_thread"}

(* The process, with what was available when it began *)
ProcessAt(phase, firebase, redis, telegram) ==
    [phase |-> phase, firebase |-> firebase, redis |-> redis, telegram |-> telegram,
     threads |-> IF phase = "running" THEN LoopThreads ELSE {},
     startup_sent |-> phase = "running" /\ telegram]

(* The process serving, the loops idle and the stand-in unused *)
InitHost ==
    /\ process = ProcessAt("running", TRUE, TRUE, TRUE)
    /\ schedule = LoopAt(0)
    /\ stub = StubIdle
    /\ youtube = YouTubeIdle

----------------------------------------------------------------------------
(* The state after YouTubeBotService.__init__, on an empty Firestore and Redis *)
InitServices ==
    /\ today = "D1"
    /\ subs = [c \in ChannelIds |-> None]
    /\ videos = {}
    /\ last_subs_sync = NoneStr
    /\ channels_cache = None
    /\ cache_timestamp = NoneStr
    /\ redis_videos = [d \in Dates |-> <<>>]
    /\ redis_filtered = [d \in Dates |-> 0]
    /\ summary_sent = 0
    /\ new_sub_sent = [c \in ChannelIds |-> 0]
    /\ poll = PollIdle
    /\ poll_calls = {}
    /\ last_polled = [c \in ChannelIds |-> None]
    /\ buffer_added = [k \in ChannelIds \X VideoIds |-> 0]
    /\ sync = SyncIdle
    /\ summary = SummaryIdle

(* One subscribed channel; the jobs of the threads overlap *)
Init ==
    /\ InitServices
    /\ InitHost
    /\ probe = ProbeIdle
    /\ init_mode \in BOOLEAN
    /\ faulty = FALSE
    /\ overlap = TRUE
    /\ yt_subscriptions =
           [c \in ChannelIds |-> IF c = "UC1" THEN [title |-> "", thumbnail |-> NoneStr]
                                              ELSE None]

PollJob == PollStart \/ PollChannel \/ PollFinish

SyncJob == SyncStart \/ SyncCheck \/ SyncSave \/ SyncFinish

SummaryJob == SummaryRead \/ SummarySend

Subscribed == {c \in ChannelIds : yt_subscriptions[c] /= None}

NotifyCalls ==
    \/ \E c \in Subscribed : toggle_channel_notifications(c)
    \/ \E c \in Subscribed, b \in BOOLEAN : set_channel_notifications(c, b)

Next ==
    \/ PollJob
    \/ SyncJob
    \/ NotifyCalls
    \/ CacheTtlElapses

Spec == Init /\ [][Next]_vars

(* Two subscribed channels; the jobs run one after the other *)
InitSerial ==
    /\ InitServices
    /\ InitHost
    /\ probe = ProbeIdle
    /\ init_mode \in BOOLEAN
    /\ faulty = FALSE
    /\ overlap = FALSE
    /\ yt_subscriptions = [c \in ChannelIds |-> [title |-> "T1", thumbnail |-> "th1"]]

NextSerial ==
    \/ PollJob
    \/ SyncJob
    \/ NotifyCalls
    \/ CacheTtlElapses

SpecSerial == InitSerial /\ [][NextSerial]_vars

(* One subscribed channel; the poll job and the summary job overlap *)
NextSummary ==
    \/ PollJob
    \/ SyncJob
    \/ SummaryJob

SpecSummary == Init /\ [][NextSummary]_vars

----------------------------------------------------------------------------
(* Two subscribed channels and collaborators that may fail: any call of a
   channel-sync cycle to Firestore or Telegram may raise *)
InitFaulty ==
    /\ InitServices
    /\ InitHost
    /\ probe = ProbeIdle
    /\ init_mode = FALSE
    /\ faulty = TRUE
    /\ overlap = FALSE
    /\ yt_subscriptions = [c \in ChannelIds |-> [title |-> "T1", thumbnail |-> "th1"]]

NextFaulty == SyncJob

SpecFaulty == InitFaulty /\ [][NextFaulty]_vars

----------------------------------------------------------------------------
(* The threads at the grain of the registry's own statements.  FirebaseService
   takes no lock: get_all_channels evaluates self._is_cache_valid() (line 223)
   and then reads self._channels_cache (line 224), and a save_subscription of
   the channel-sync thread may run its _invalidate_cache between the two. *)

(* get_all_channels, line 223 and, on a miss, lines 226-262 *)
PollCacheCheck ==
    /\ poll.pc = "idle"
    /\ MayStart
    /\ IF _is_cache_valid(FB)
       THEN /\ poll' = [PollIdle EXCEPT !.pc = "cache_valid"]
            /\ UNCHANGED <<fbVars, last_polled>>
       ELSE \E db_ok \in Outcomes :
              LET r == get_all_channels(FB, db_ok)
                  polled == channels_to_poll(r.result)
              IN  /\ SetFB(r.fb)
                  /\ poll' = [PollIdle EXCEPT !.pc = "loop", !.channels = r.result,
                                              !.channels_to_poll = polled]
                  /\ last_polled' =
                         [c \in ChannelIds |->
                             IF \E i \in 1..Len(polled) : polled[i].channel_id = c
                             THEN last_polled[c] ELSE None]
    /\ poll_calls' = {}
    /\ UNCHANGED <<cfgVars, yt_subscriptions, probe, hostVars, redisVars, tgVars, buffer_added, sync, summary>>

(* get_all_channels, line 224: self._channels_cache.copy().  On None the
   AttributeError is raised outside the try of get_all_channels; neither
   _poll_videos_once nor the loop of _run_video_poll catches it, and the
   thread ends. *)
PollCacheRead ==
    /\ poll.pc = "cache_valid"
    /\ IF channels_cache = None
       THEN /\ poll' = [PollIdle EXCEPT !.pc = "dead"]
            /\ UNCHANGED last_polled
       ELSE LET polled == channels_to_poll(channels_cache[1])
            IN  /\ poll' = [PollIdle EXCEPT !.pc = "loop",
                                            !.channels = channels_cache[1],
                                            !.channels_to_poll = polled]
                /\ last_polled' =
                       [c \in ChannelIds |->
                           IF \E i \in 1..Len(polled) : polled[i].channel_id = c
                           THEN last_polled[c] ELSE None]
    /\ UNCHANGED <<cfgVars, yt_subscriptions, probe, hostVars, fbVars, redisVars, tgVars, poll_calls,
                   buffer_added, sync, summary>>

NextRace ==
    \/ PollCacheCheck
    \/ PollCacheRead
    \/ PollChannel
    \/ PollFinish
    \/ SyncJob

SpecRace == Init /\ [][NextRace]_vars

----------------------------------------------------------------------------
(* A direct caller of RedisService: the operations of the buffer called one at
   a time, on any date, while the UTC date moves on *)

(* Everything but the buffer, the date and the caller *)
appVars == <<init_mode, faulty, overlap, yt_subscriptions, fbVars, tgVars, pollVars,
             sync, summary, hostVars>>

(* The videos the caller stores *)
ProbeVideos == {Video("v1", "UC1", WatchLink("v1"), None),
                Video("v2", "UC2", WatchLink("v2"), IsoOf("v2"))}

(* The date_str argument: a date, or None for the default *)
DateArgs == Dates \cup {NoneStr}

Called(op) == [ProbeIdle EXCEPT !.op = op, !.prev = probe.op]

RedisStore ==
    /\ Len(redis_videos[today]) < MaxBuffer
    /\ \E video \in ProbeVideos, redis_ok \in Outcomes :
         /\ SetRD(store_video(RD, video, today, redis_ok))
         /\ probe' = [Called("store_video") EXCEPT !.video = video]
    /\ UNCHANGED <<appVars, today>>

RedisIncrement(date_str) ==
    /\ redis_filtered[_get_videos_key(date_str, today)] < MaxFiltered
    /\ \E redis_ok \in Outcomes :
         SetRD(increment_filtered_count(RD, 1, date_str, today, redis_ok))
    /\ probe' = [Called("increment_filtered_count") EXCEPT !.date_str = date_str]
    /\ UNCHANGED <<appVars, today>>

RedisDrain(date_str) ==
    /\ \E ok1 \in Outcomes, ok2 \in Outcomes :
         LET r == drain(RD, date_str, today, ok1, ok2)
         IN  /\ SetRD(r.rd)
             /\ probe' = [Called("drain") EXCEPT !.date_str = date_str,
                                                 !.videos = r.videos,
                                                 !.count = r.filtered_count]
    /\ UNCHANGED <<appVars, today>>

RedisClear(date_str) ==
    /\ \E redis_ok \in Outcomes :
         LET r == clear_stored_videos(RD, date_str, today, redis_ok)
         IN  /\ SetRD(r.rd)
             /\ probe' = [Called("clear_stored_videos") EXCEPT !.date_str = date_str,
                                                               !.count = r.result]
    /\ UNCHANGED <<appVars, today>>

(* Midnight UTC: datetime.now(timezone.utc) moves to the next date *)
DayRolls ==
    /\ \E i \in 1..(Len(DateOrder) - 1) :
         /\ today = DateOrder[i]
         /\ today' = DateOrder[i + 1]
    /\ probe' = Called("midnight")
    /\ UNCHANGED <<appVars, redisVars>>

InitRedis ==
    /\ InitServices
    /\ InitHost
    /\ probe = ProbeIdle
    /\ init_mode = FALSE
    /\ faulty = FALSE
    /\ overlap = FALSE
    /\ yt_subscriptions = [c \in ChannelIds |-> None]

NextRedis ==
    \/ RedisStore
    \/ \E date_str \in DateArgs : RedisIncrement(date_str)
    \/ \E date_str \in DateArgs : RedisDrain(date_str)
    \/ \E date_str \in DateArgs : RedisClear(date_str)
    \/ DayRolls

SpecRedis == InitRedis /\ [][NextRedis]_vars

----------------------------------------------------------------------------
(* A direct caller of _is_full_youtube_video: the classifier applied to one
   video, whose link is any of the links below *)

LinkHosts == {"https://www.youtube.com", "https://m.youtube.com", "https://youtu.be",
              "HTTPS://WWW.YOUTUBE.COM", "http://www.youtube.com"}
LinkPaths == {"/watch?v=", "/shorts/", "/watch", "/", "/WATCH?V="}
LinkIds   == {"v1", "s1"}

(* The links, each the sequence of its pieces: no link at all (None and the
   empty string, both the empty sequence), a host, a host and a path, and a
   host, a path and an id *)
ClassifyLinks ==
    {<<>>}
    \cup {<<h>> : h \in LinkHosts}
    \cup {<<h, q>> : h \in LinkHosts, q \in LinkPaths}
    \cup {<<h, q, i>> : h \in LinkHosts, q \in LinkPaths, i \in LinkIds}

Classify ==
    /\ probe.op = ""
    /\ probe' = [probe EXCEPT !.op = "_is_full_youtube_video",
                              !.result = _is_full_youtube_video(probe.video)]
    /\ UNCHANGED <<appVars, redisVars, today>>

InitClassify ==
    /\ InitServices
    /\ InitHost
    /\ init_mode = FALSE
    /\ faulty = FALSE
    /\ overlap = FALSE
    /\ yt_subscriptions = [c \in ChannelIds |-> None]
    /\ \E link \in ClassifyLinks :
         probe = [ProbeIdle EXCEPT !.video = Video("v1", "UC1", link, None)]

NextClassify == Classify

SpecClassify == InitClassify /\ [][NextClassify]_vars

----------------------------------------------------------------------------
(* Everything but the process, the scheduling loop and the stand-in's caller *)
serviceVars == <<cfgVars, yt_subscriptions, probe, fbVars, redisVars, tgVars, pollVars,
                 sync, summary>>

----------------------------------------------------------------------------
(* Startup.  The process begins with each of Firestore, Redis and the Telegram
   chat reachable or not. *)

(* YouTubeBotService.__init__: TelegramService(..) only stores the token and
   the chat id; FirebaseService and RedisService are asked is_available and
   ValueError is raised when either says no *)
Construct ==
    /\ process.phase = "boot"
    /\ process' = [process EXCEPT
                     !.phase = IF process.firebase /\ process.redis
                               THEN "constructed" ELSE "raised"]
    /\ UNCHANGED <<serviceVars, youtube, schedule, stub>>

(* start, lines 55-73: _send_startup_notification drops what
   send_startup_message returns, and the three threads are started *)
Start ==
    /\ process.phase = "constructed"
    /\ process' = [process EXCEPT !.phase = "running",
                                  !.startup_sent = send_message(process.telegram),
                                  !.threads = LoopThreads]
    /\ UNCHANGED <<serviceVars, youtube, schedule, stub>>

(* The loop threads exist *)
Serving == process.threads = LoopThreads

(* A collaborator that was not reachable at the start may fail later as well *)
InitStartup ==
    /\ InitServices
    /\ probe = ProbeIdle
    /\ schedule = LoopAt(0)
    /\ stub = StubIdle
    /\ youtube = YouTubeIdle
    /\ \E firebase \in BOOLEAN, redis \in BOOLEAN, telegram \in BOOLEAN :
         process = ProcessAt("boot", firebase, redis, telegram)
    /\ faulty = ~(process.firebase /\ process.redis /\ process.telegram)
    /\ init_mode = FALSE
    /\ overlap = FALSE
    /\ yt_subscriptions =
           [c \in ChannelIds |-> IF c = "UC1" THEN [title |-> "T1", thumbnail |-> "th1"]
                                              ELSE None]

NextStartup ==
    \/ Construct
    \/ Start
    \/ Serving /\ SyncJob
    \/ Serving /\ PollJob
    \/ Serving /\ SummaryJob

SpecStartup == InitStartup /\ [][NextStartup]_vars

----------------------------------------------------------------------------
(* One scheduling loop, _run_video_poll or _run_summary_sender, with a job
   that takes any time up to MaxDuration *)

(* next_poll = cron.get_next(datetime) *)
LoopNext ==
    /\ schedule.pc = "top"
    /\ get_next(schedule) <= MaxTime
    /\ schedule' = [schedule EXCEPT !.pc = "wait", !.next = get_next(schedule),
                                    !.cur = get_next(schedule)]
    /\ UNCHANGED <<serviceVars, youtube, process, stub>>

(* A sleep that returns at once *)
LoopNoSleep ==
    /\ schedule.pc = "wait"
    /\ schedule' = [schedule EXCEPT !.pc = "job", !.started = schedule.now]
    /\ UNCHANGED <<serviceVars, youtube, process, stub>>

(* sleep_seconds = (next_poll - datetime.now()).total_seconds();
   if sleep_seconds > 0: time.sleep(sleep_seconds) *)
LoopSleep ==
    /\ schedule.pc = "wait"
    /\ IF schedule.next - schedule.now > 0
       THEN \E late \in 0..MaxLate :
              schedule' = [schedule EXCEPT !.pc = "job", !.now = schedule.next + late,
                                           !.started = schedule.next + late]
       ELSE schedule' = [schedule EXCEPT !.pc = "job", !.started = schedule.now]
    /\ UNCHANGED <<serviceVars, youtube, process, stub>>

(* self._poll_videos_once() or self._send_daily_summary(), as time spent *)
LoopJob ==
    /\ schedule.pc = "job"
    /\ \E d \in 0..MaxDuration :
         schedule' = [schedule EXCEPT
                        !.pc = "top", !.now = schedule.now + d,
                        !.runs = Append(schedule.runs,
                                        [trigger |-> schedule.next,
                                         started |-> schedule.started,
                                         ended |-> schedule.now + d])]
    /\ UNCHANGED <<serviceVars, youtube, process, stub>>

(* The loop is entered at any time between two triggers *)
InitSchedule ==
    /\ InitServices
    /\ probe = ProbeIdle
    /\ process = ProcessAt("running", TRUE, TRUE, TRUE)
    /\ stub = StubIdle
    /\ youtube = YouTubeIdle
    /\ \E now \in 0..(CronPeriod - 1) : schedule = LoopAt(now)
    /\ init_mode = FALSE
    /\ faulty = FALSE
    /\ overlap = FALSE
    /\ yt_subscriptions = [c \in ChannelIds |-> None]

NextSchedule ==
    \/ LoopNext
    \/ LoopSleep
    \/ LoopJob

SpecSchedule == InitSchedule /\ [][NextSchedule]_vars

----------------------------------------------------------------------------
(* The three threads of start(), each from the entry of its target.
   _run_channel_sync calls _sync_subscriptions once (line 108) and only then
   builds its croniter; the other two build theirs at once. *)
LoopEnter ==
    /\ schedule.pc = "start"
    /\ IF schedule.thread = "channel_thread"
       THEN \E d \in 0..MaxDuration :
              schedule' = [schedule EXCEPT
                             !.pc = "top", !.now = schedule.now + d,
                             !.since = schedule.now + d, !.cur = schedule.now + d,
                             !.initial = <<[started |-> schedule.now,
                                            ended |-> schedule.now + d]>>]
       ELSE schedule' = [schedule EXCEPT !.pc = "top"]
    /\ UNCHANGED <<serviceVars, youtube, process, stub>>

InitLoops ==
    /\ InitServices
    /\ probe = ProbeIdle
    /\ process = ProcessAt("running", TRUE, TRUE, TRUE)
    /\ stub = StubIdle
    /\ youtube = YouTubeIdle
    /\ \E thread \in LoopThreads, now \in 0..(CronPeriod - 1) :
         schedule = ThreadAt(thread, now)
    /\ init_mode = FALSE
    /\ faulty = FALSE
    /\ overlap = FALSE
    /\ yt_subscriptions = [c \in ChannelIds |-> None]

NextLoops ==
    \/ LoopEnter
    \/ LoopNext
    \/ LoopSleep
    \/ LoopJob

SpecLoops == InitLoops /\ [][NextLoops]_vars

----------------------------------------------------------------------------
(* One subscribed channel; the poll, sync and summary jobs run one after the
   other, over midnight.  Each thread loops for the life of the process, so
   a job that stays enabled is run. *)
InitFlush ==
    /\ InitServices
    /\ InitHost
    /\ probe = ProbeIdle
    /\ init_mode = FALSE
    /\ faulty = FALSE
    /\ overlap = FALSE
    /\ yt_subscriptions =
           [c \in ChannelIds |-> IF c = "UC1" THEN [title |-> "T1", thumbnail |-> "th1"]
                                              ELSE None]

NextFlush ==
    \/ PollJob
    \/ SyncJob
    \/ SummaryJob
    \/ DayRolls

SpecFlush ==
    /\ InitFlush
    /\ [][NextFlush]_vars
    /\ WF_vars(PollJob)
    /\ WF_vars(SyncJob)
    /\ WF_vars(SummaryRead)
    /\ WF_vars(SummarySend)

----------------------------------------------------------------------------
(* One subscribed channel and collaborators that may fail; the poll job and
   the channel-sync job run one after the other *)
InitOutage ==
    /\ InitServices
    /\ InitHost
    /\ probe = ProbeIdle
    /\ init_mode = FALSE
    /\ faulty = TRUE
    /\ overlap = FALSE
    /\ yt_subscriptions =
           [c \in ChannelIds |-> IF c = "UC1" THEN [title |-> "T1", thumbnail |-> "th1"]
                                              ELSE None]

NextOutage ==
    \/ PollJob
    \/ SyncJob

SpecOutage == InitOutage /\ [][NextOutage]_vars

----------------------------------------------------------------------------
(* get_all_channels at the grain of its Firestore read: on a cache miss the
   collection is read (line 228), the Channels are built from the documents
   read, and only then the list is installed as the cache (lines 255-256).
   A write of the channel-sync thread with its _invalidate_cache may fall
   between the read and the installation. *)

(* get_all_channels, lines 212-253: a cache hit, or the read of the collection *)
PollStoreRead ==
    /\ poll.pc = "idle"
    /\ MayStart
    /\ IF _is_cache_valid(FB)
       THEN LET polled == channels_to_poll(channels_cache[1])
            IN  poll' = [PollIdle EXCEPT !.pc = "loop", !.channels = channels_cache[1],
                                         !.channels_to_poll = polled]
       ELSE \E db_ok \in Outcomes :
              IF db_ok
              THEN poll' = [PollIdle EXCEPT !.pc = "store_read",
                                            !.channels = StoredChannels(FB)]
              ELSE poll' = [PollIdle EXCEPT !.pc = "loop"]
    /\ last_polled' = [c \in ChannelIds |-> None]
    /\ poll_calls' = {}
    /\ UNCHANGED <<cfgVars, yt_subscriptions, probe, hostVars, fbVars, redisVars, tgVars, buffer_added, sync, summary>>

(* get_all_channels, lines 255-259, then _poll_videos_once, lines 261-268 *)
PollCacheInstall ==
    /\ poll.pc = "store_read"
    /\ channels_cache' = Some(poll.channels)
    /\ cache_timestamp' = "fresh"
    /\ poll' = [poll EXCEPT !.pc = "loop",
                            !.channels_to_poll = channels_to_poll(poll.channels)]
    /\ UNCHANGED <<cfgVars, yt_subscriptions, probe, hostVars, subs, videos, last_subs_sync, redisVars, tgVars,
                   poll_calls, last_polled, buffer_added, sync, summary>>

(* Two subscribed channels, UC1 registered by a sync cycle that ended after
   its first page; the poll job and the sync job overlap *)
InitSnapshot ==
    /\ today = "D1"
    /\ subs = save_subscription(
                  [subs |-> [c \in ChannelIds |-> None], videos |-> {},
                   last_subs_sync |-> NoneStr, channels_cache |-> None,
                   cache_timestamp |-> NoneStr],
                  NewChannel("UC1", "T1", "th1"), TRUE).fb.subs
    /\ videos = {}
    /\ last_subs_sync = SERVER_TIMESTAMP
    /\ channels_cache = None
    /\ cache_timestamp = NoneStr
    /\ redis_videos = [d \in Dates |-> <<>>]
    /\ redis_filtered = [d \in Dates |-> 0]
    /\ summary_sent = 0
    /\ new_sub_sent = [c \in ChannelIds |-> IF c = "UC1" THEN 1 ELSE 0]
    /\ poll = PollIdle
    /\ poll_calls = {}
    /\ last_polled = [c \in ChannelIds |-> None]
    /\ buffer_added = [k \in ChannelIds \X VideoIds |-> 0]
    /\ sync = SyncIdle
    /\ summary = SummaryIdle
    /\ InitHost
    /\ probe = ProbeIdle
    /\ init_mode = FALSE
    /\ faulty = FALSE
    /\ overlap = TRUE
    /\ yt_subscriptions = [c \in ChannelIds |-> [title |-> "T1", thumbnail |-> "th1"]]

NextSnapshot ==
    \/ PollStoreRead
    \/ PollCacheInstall
    \/ PollChannel
    \/ PollFinish
    \/ SyncJob

SpecSnapshot == InitSnapshot /\ [][NextSnapshot]_vars

----------------------------------------------------------------------------
(* The summary job with a dispatcher that has the method the job calls.  The
   class of the repository lacks it; the call is taken from the flush of the
   specification: the dispatcher is called with the list read, and once it
   has completed the buffer is cleared. *)

(* What the call of the dispatcher can do: it completes, or it raises *)
notify_new_videos == {"returned", "raised"}

(* _send_daily_summary, lines 174-188, with that dispatcher *)
FlushSend ==
    /\ summary.pc = "send"
    /\ \E sent \in notify_new_videos, sink_ok \in Outcomes, redis_ok \in Outcomes :
         LET r == SendAndClear(RD, today, sent, sink_ok, redis_ok)
         IN  /\ SetRD(r.rd)
             /\ summary_sent' = summary_sent + r.delivered
             /\ summary_sent' <= MaxMsgs
             /\ summary' = [SummaryIdle EXCEPT !.log = r.log]
    /\ UNCHANGED <<cfgVars, yt_subscriptions, probe, hostVars, fbVars, new_sub_sent, pollVars, sync>>

(* One subscribed channel, registered by a channel-sync cycle that has ended;
   the poll job and the summary job overlap *)
InitDispatch ==
    /\ today = "D1"
    /\ subs = save_subscription(
                  [subs |-> [c \in ChannelIds |-> None], videos |-> {},
                   last_subs_sync |-> NoneStr, channels_cache |-> None,
                   cache_timestamp |-> NoneStr],
                  NewChannel("UC1", "T1", "th1"), TRUE).fb.subs
    /\ videos = {}
    /\ last_subs_sync = SERVER_TIMESTAMP
    /\ channels_cache = None
    /\ cache_timestamp = NoneStr
    /\ redis_videos = [d \in Dates |-> <<>>]
    /\ redis_filtered = [d \in Dates |-> 0]
    /\ summary_sent = 0
    /\ new_sub_sent = [c \in ChannelIds |-> IF c = "UC1" THEN 1 ELSE 0]
    /\ poll = PollIdle
    /\ poll_calls = {}
    /\ last_polled = [c \in ChannelIds |-> None]
    /\ buffer_added = [k \in ChannelIds \X VideoIds |-> 0]
    /\ sync = SyncIdle
    /\ summary = SummaryIdle
    /\ InitHost
    /\ probe = ProbeIdle
    /\ init_mode = FALSE
    /\ faulty = FALSE
    /\ overlap = TRUE
    /\ yt_subscriptions =
           [c \in ChannelIds |-> IF c = "UC1" THEN [title |-> "T1", thumbnail |-> "th1"]
                                              ELSE None]

NextDispatch ==
    \/ PollJob
    \/ SummaryRead
    \/ FlushSend

SpecDispatch == InitDispatch /\ [][NextDispatch]_vars

----------------------------------------------------------------------------
(* A caller of the notification preference methods, as in
   notification_preference_example.py: one call after the other, for a
   channel with or without a record, between the jobs of the bot. *)

(* The call made: its method, arguments and return value; turn tells a call
   from the one before it *)
NotifyCalled(op, channel_id, notify, result) ==
    [ProbeIdle EXCEPT !.op = op, !.prev = channel_id, !.video = Some(notify),
                      !.result = result, !.count = 1 - probe.count]

NotifyToggle(channel_id) ==
    /\ MayStart
    /\ \E ok1 \in Outcomes, ok2 \in Outcomes :
         LET r == BotService_toggle_channel_notifications(FB, channel_id, ok1, ok2)
         IN  /\ SetFB(r.fb)
             /\ probe' = NotifyCalled("toggle_channel_notifications", channel_id,
                                       FALSE, r.result)
    /\ UNCHANGED <<cfgVars, yt_subscriptions, hostVars, redisVars, tgVars, pollVars, sync, summary>>

NotifySet(channel_id, notify) ==
    /\ MayStart
    /\ \E ok1 \in Outcomes, ok2 \in Outcomes :
         LET r == BotService_set_channel_notifications(FB, channel_id, notify, ok1, ok2)
         IN  /\ SetFB(r.fb)
             /\ probe' = NotifyCalled("set_channel_notifications", channel_id,
                                       notify, r.result)
    /\ UNCHANGED <<cfgVars, yt_subscriptions, hostVars, redisVars, tgVars, pollVars, sync, summary>>

(* UC1 is subscribed and gets its record from the sync job; UC2 never has one *)
InitNotify ==
    /\ InitServices
    /\ InitHost
    /\ probe = ProbeIdle
    /\ init_mode = FALSE
    /\ faulty = FALSE
    /\ overlap = FALSE
    /\ yt_subscriptions =
           [c \in ChannelIds |-> IF c = "UC1" THEN [title |-> "T1", thumbnail |-> "th1"]
                                              ELSE None]

NextNotify ==
    \/ SyncJob
    \/ PollJob
    \/ CacheTtlElapses
    \/ \E c \in ChannelIds : NotifyToggle(c)
    \/ \E c \in ChannelIds, b \in BOOLEAN : NotifySet(c, b)

SpecNotify == InitNotify /\ [][NextNotify]_vars

(* The same caller setting the preference of UC1 while the jobs of the bot's
   threads overlap with its calls *)
InitPreference ==
    /\ InitServices
    /\ InitHost
    /\ probe = ProbeIdle
    /\ init_mode = FALSE
    /\ faulty = FALSE
    /\ overlap = TRUE
    /\ yt_subscriptions =
           [c \in ChannelIds |-> IF c = "UC1" THEN [title |-> "T1", thumbnail |-> "th1"]
                                              ELSE None]

NextPreference ==
    \/ SyncJob
    \/ PollJob
    \/ CacheTtlElapses
    \/ \E b \in BOOLEAN : NotifySet("UC1", b)

SpecPreference == InitPreference /\ [][NextPreference]_vars

----------------------------------------------------------------------------
(* A caller of YouTubeService.fetch_all_subscriptions, one call after the
   other.  The API hands out one subscription per page. *)

SubscribedOrder == SelectSeq2(ChannelOrder, {c \in ChannelIds : yt_subscriptions[c] /= None})

(* fetch_all_subscriptions, lines 211-218: the client is the cached one or is
   built now, which may fail *)
FetchStart ==
    /\ youtube.pc \in {"idle", "returned"}
    /\ \E client_ok \in BOOLEAN :
         youtube' = IF youtube._client \/ client_ok
                    THEN [YouTubeIdle EXCEPT !.pc = "paging", !._client = TRUE]
                    ELSE [YouTubeIdle EXCEPT !.pc = "returned"]
    /\ UNCHANGED <<serviceVars, process, schedule, stub>>

(* fetch_all_subscriptions, lines 220-250: a page is read and its item appended *)
FetchPage ==
    /\ youtube.pc = "paging"
    /\ youtube' =
         IF youtube.page > Len(SubscribedOrder)
         THEN [youtube EXCEPT !.pc = "returned"]
         ELSE LET channel_id == SubscribedOrder[youtube.page]
              IN  [youtube EXCEPT
                     !.items = Append(@, <<channel_id, yt_subscriptions[channel_id].title,
                                           yt_subscriptions[channel_id].thumbnail>>),
                     !.page = @ + 1,
                     !.pc = IF youtube.page = Len(SubscribedOrder)
                            THEN "returned" ELSE "paging"]
    /\ UNCHANGED <<serviceVars, process, schedule, stub>>

(* fetch_all_subscriptions, lines 252-260: the page request raised; after
   _handle_api_error both branches break out of the loop *)
FetchError ==
    /\ youtube.pc = "paging"
    /\ \E error \in ErrorTexts, reauth_ok \in BOOLEAN :
         LET h == _handle_api_error(youtube, error, reauth_ok)
         IN  youtube' = [h.yt EXCEPT !.pc = "returned", !.error = error,
                                     !.handled = h.result]
    /\ UNCHANGED <<serviceVars, process, schedule, stub>>

InitFetch ==
    /\ InitServices
    /\ probe = ProbeIdle
    /\ process = ProcessAt("running", TRUE, TRUE, TRUE)
    /\ schedule = LoopAt(0)
    /\ stub = StubIdle
    /\ youtube = YouTubeIdle
    /\ init_mode = FALSE
    /\ faulty = TRUE
    /\ overlap = FALSE
    /\ yt_subscriptions \in [ChannelIds -> Snippets \cup {None}]

NextFetch ==
    \/ FetchStart
    \/ FetchPage
    \/ FetchError

SpecFetch == InitFetch /\ [][NextFetch]_vars

----------------------------------------------------------------------------
(* A caller of NullFirebaseService, calling its methods one at a time *)

StubCalled(op) == [StubIdle EXCEPT !.op = op, !.prev = stub.op]

(* The channels and videos the caller passes *)
StubChannels == {NewChannel(c, "T1", "th1") : c \in ChannelIds}
                    \cup {Channel(c, "T1", "th1", "v1", FALSE, None) : c \in ChannelIds}
StubVideos   == {from_rss_entry(e, c) : e \in FeedEntries, c \in ChannelIds}

NullIsAvailable ==
    /\ stub' = [StubCalled("is_available") EXCEPT
                  !.result = NullFirebaseService_is_available]
    /\ UNCHANGED <<serviceVars, youtube, process, schedule>>

NullSaveVideo ==
    /\ \E video \in StubVideos :
         stub' = [StubCalled("save_video") EXCEPT
                    !.video = video, !.result = NullFirebaseService_save_video(video)]
    /\ UNCHANGED <<serviceVars, youtube, process, schedule>>

NullSaveSubscription ==
    /\ \E channel \in StubChannels :
         stub' = [StubCalled("save_subscription") EXCEPT
                    !.channel = channel,
                    !.result = NullFirebaseService_save_subscription(channel)]
    /\ UNCHANGED <<serviceVars, youtube, process, schedule>>

NullUpdateChannelLastVideo ==
    /\ \E channel_id \in ChannelIds, video_id \in VideoIds :
         stub' = [StubCalled("update_channel_last_video") EXCEPT
                    !.channel_id = channel_id, !.video_id = video_id,
                    !.result = NullFirebaseService_update_channel_last_video(channel_id,
                                                                             video_id)]
    /\ UNCHANGED <<serviceVars, youtube, process, schedule>>

NullGetAllChannels ==
    /\ stub' = [StubCalled("get_all_channels") EXCEPT
                  !.channels = NullFirebaseService_get_all_channels]
    /\ UNCHANGED <<serviceVars, youtube, process, schedule>>

NullGetChannel ==
    /\ \E channel_id \in ChannelIds :
         LET r == NullFirebaseService_get_channel(channel_id)
         IN  stub' = [StubCalled("get_channel") EXCEPT
                        !.channel_id = channel_id, !.raised = r.raised,
                        !.channel = r.channel]
    /\ UNCHANGED <<serviceVars, youtube, process, schedule>>

NullChannelExists ==
    /\ \E channel_id \in ChannelIds :
         stub' = [StubCalled("channel_exists") EXCEPT
                    !.channel_id = channel_id,
                    !.result = NullFirebaseService_channel_exists(channel_id)]
    /\ UNCHANGED <<serviceVars, youtube, process, schedule>>

NullChannelsExistBatch ==
    /\ \E channel_ids \in SUBSET ChannelIds :
         stub' = [StubCalled("channels_exist_batch") EXCEPT
                    !.batch = NullFirebaseService_channels_exist_batch(channel_ids)]
    /\ UNCHANGED <<serviceVars, youtube, process, schedule>>

NullUpdateLastSyncTime ==
    /\ stub' = [StubCalled("update_last_sync_time") EXCEPT
                  !.result = NullFirebaseService_update_last_sync_time]
    /\ UNCHANGED <<serviceVars, youtube, process, schedule>>

NullUpdateChannelNotifyPreference ==
    /\ \E channel_id \in ChannelIds, notify \in BOOLEAN :
         stub' = [StubCalled("update_channel_notify_preference") EXCEPT
                    !.channel_id = channel_id, !.notify = notify,
                    !.result = NullFirebaseService_update_channel_notify_preference(
                                   channel_id, notify)]
    /\ UNCHANGED <<serviceVars, youtube, process, schedule>>

NullGetDailyStats ==
    /\ stub' = [StubCalled("get_daily_stats") EXCEPT
                  !.stats = NullFirebaseService_get_daily_stats]
    /\ UNCHANGED <<serviceVars, youtube, process, schedule>>

(* The stand-in is what the caller holds when Firestore is not available *)
InitNull ==
    /\ InitServices
    /\ probe = ProbeIdle
    /\ process = ProcessAt("boot", FALSE, TRUE, TRUE)
    /\ schedule = LoopAt(0)
    /\ stub = StubIdle
    /\ youtube = YouTubeIdle
    /\ init_mode = FALSE
    /\ faulty = FALSE
    /\ overlap = FALSE
    /\ yt_subscriptions = [c \in ChannelIds |-> None]

NextNull ==
    \/ NullIsAvailable
    \/ NullSaveVideo
    \/ NullSaveSubscription
    \/ NullUpdateChannelLastVideo
    \/ NullGetAllChannels
    \/ NullGetChannel
    \/ NullChannelExists
    \/ NullChannelsExistBatch
    \/ NullUpdateLastSyncTime
    \/ NullUpdateChannelNotifyPreference
    \/ NullGetDailyStats

SpecNull == InitNull /\ [][NextNull]_vars

----------------------------------------------------------------------------
(* Properties *)

(* A full-form video: its link is the watch URL of its id *)
FullForm(video) == video.link = WatchLink(video.video_id)

(* The step of the poll loop that handles channel c *)
PollStepOf(c) ==
    /\ poll.pc = "loop"
    /\ poll.idx <= Len(poll.channels_to_poll)
    /\ poll.channels_to_poll[poll.idx].channel_id = c
    /\ poll'.pc = "loop"
    /\ poll'.idx = poll.idx + 1

(* The calls of a step on the registry, other than the feed fetch *)
RegistryCalls(calls) == {k \in calls : k[1] /= "get_latest_video"}

(* The step handles c and its latest_video is a video with an id *)
PollStepWithVideo(c) ==
    /\ PollStepOf(c)
    /\ last_polled'[c] /= None
    /\ Truthy(last_polled'[c].video_id)

(* C1: when a channel is polled twice in succession and the feed gives the
   same full-form video both times, the second poll makes no save_video call,
   no cursor write and adds nothing to the videos to buffer. *)
C1_IdempotentPoll ==
    [][\A c \in ChannelIds :
         ( /\ PollStepWithVideo(c)
           /\ last_polled'[c] = last_polled[c]
           /\ FullForm(last_polled[c]) )
         => /\ RegistryCalls(poll_calls') = RegistryCalls(poll_calls)
            /\ subs' = subs
            /\ poll'.new_videos = poll.new_videos]_vars

(* What get_channel and get_all_channels return in the current state *)
ReadsAgreeWithStore(c) ==
    /\ get_all_channels(FB, TRUE).result = StoredChannels(FB)
    /\ channel_exists(FB, c, TRUE) = (subs[c] /= None)
    /\ subs[c] /= None =>
         get_channel(FB, c, TRUE) = [raised |-> "", channel |-> from_doc(c, subs[c])]

(* C2: right after a write to a channel's document, get_all_channels,
   get_channel and channel_exists return what was written. *)
C2_ReadYourWrites ==
    [][\A c \in ChannelIds : subs'[c] /= subs[c] => ReadsAgreeWithStore(c)']_vars

(* C3: the stored cursor of a channel changes only in the poll step that
   accepts a full-form video for that channel, and then to that video. *)
C3_CursorMonotonic ==
    [][\A c \in ChannelIds :
         ( /\ subs[c] /= None
           /\ subs'[c].last_video_id /= subs[c].last_video_id )
         => /\ PollStepWithVideo(c)
            /\ FullForm(last_polled'[c])
            /\ subs'[c].last_video_id = last_polled'[c].video_id]_vars

(* C4: the save of a channel-sync cycle leaves the cursor, the notify flag
   and last_upload_at of a channel that is already stored as they were. *)
C4_SyncPreserves ==
    [][\A c \in ChannelIds :
         ( /\ sync.pc = "save"
           /\ sync'.pc = "check"
           /\ sync.channel.channel_id = c
           /\ subs[c] /= None )
         => /\ subs'[c].last_video_id = subs[c].last_video_id
            /\ subs'[c].notify = subs[c].notify
            /\ subs'[c].last_upload_at = subs[c].last_upload_at]_vars

(* The latest entry of c differs from the cursor the poll holds for c *)
NewForPoll(c) ==
    /\ PollStepWithVideo(c)
    /\ last_polled'[c].video_id /= poll.channels_to_poll[poll.idx].last_video_id

(* C5: a new latest entry that is short-form changes no document, makes no
   save_video or update_channel_last_video call, leaves the videos to buffer as
   they are and adds exactly 1 to the cycle's filtered count; a full-form one
   is handed to save_video and update_channel_last_video and is not counted
   as filtered; the end of the cycle adds the cycle's filtered count to the
   day's counter and puts nothing but the cycle's videos on the day's list. *)
C5_ShortFormFiltered ==
    [][/\ \A c \in ChannelIds :
            NewForPoll(c) =>
              IF FullForm(last_polled'[c])
              THEN /\ {<<"save_video", c, last_polled'[c].video_id>>,
                       <<"update_channel_last_video", c, last_polled'[c].video_id>>}
                          \subseteq poll_calls'
                   /\ poll'.firestore_filtered_count = poll.firestore_filtered_count
              ELSE /\ RegistryCalls(poll_calls') = RegistryCalls(poll_calls)
                   /\ fbVars' = fbVars
                   /\ poll'.new_videos = poll.new_videos
                   /\ poll'.firestore_filtered_count = poll.firestore_filtered_count + 1
       /\ (poll.pc = "loop" /\ poll'.pc = "idle") =>
            /\ redis_filtered'[today] = redis_filtered[today] + poll.firestore_filtered_count
            /\ Len(redis_videos'[today]) = Len(redis_videos[today]) + Len(poll.new_videos)
            /\ \A i \in 1..Len(poll.new_videos) :
                 FullForm(poll.new_videos[i])]_vars

(* C5 witness: a cycle has filtered the short s1 of a channel whose cursor is
   v1, and the day's counter has it *)
C5_Witness ==
    \E c \in ChannelIds :
      /\ poll.pc = "idle"
      /\ last_polled[c] /= None
      /\ last_polled[c].video_id = "s1"
      /\ subs[c] /= None
      /\ subs[c].last_video_id = "v1"
      /\ redis_filtered[today] = 1

(* The step handles c, whose cursor the poll holds as empty, and the latest
   entry is a full-form video *)
BootstrapStep(c) ==
    /\ PollStepWithVideo(c)
    /\ ~Truthy(poll.channels_to_poll[poll.idx].last_video_id)
    /\ FullForm(last_polled'[c])

(* C6: the poll of a channel with empty cursor whose latest entry is a
   full-form video v leaves a document of v in the videos collection and the
   cursor at v, and puts v among the videos to buffer iff init_mode is false. *)
C6_BootstrapPersists ==
    [][\A c \in ChannelIds :
         BootstrapStep(c) =>
           /\ last_polled'[c].video_id \in videos'
           /\ subs'[c].last_video_id = last_polled'[c].video_id
           /\ poll'.firestore_filtered_count = poll.firestore_filtered_count
           /\ poll'.new_videos = IF init_mode THEN poll.new_videos
                                 ELSE Append(poll.new_videos, last_polled'[c])]_vars

(* The channels whose feed the current cycle has fetched *)
Fetched == {k[2] : k \in {k \in poll_calls : k[1] = "get_latest_video"}}

(* C7: the channels a poll cycle fetches are the channels the registry
   returned with notify=true, in that order, and the cycle makes no call for
   a channel returned with notify=false and holds no video of it. *)
C7_NotifyGate ==
    poll.pc = "loop" =>
      /\ \A i \in 1..Len(poll.channels_to_poll) : poll.channels_to_poll[i].notify
      /\ {ch \in Range(poll.channels) : ch.notify} = Range(poll.channels_to_poll)
      /\ Fetched = {poll.channels_to_poll[i].channel_id : i \in 1..(poll.idx - 1)}
      /\ \A ch \in Range(poll.channels) :
           ~ch.notify =>
             /\ \A k \in poll_calls : k[2] /= ch.channel_id
             /\ \A i \in 1..Len(poll.new_videos) :
                  poll.new_videos[i].channel_id /= ch.channel_id

(* C7 witness: a cycle over two stored channels, one with notify=false, has
   come to the end of its loop *)
C7_Witness ==
    /\ poll.pc = "loop"
    /\ Len(poll.channels) = 2
    /\ Len(poll.channels_to_poll) = 1
    /\ poll.idx = 2
    /\ poll.new_videos /= <<>>

(* C8: no (channel, video) pair is put on the pending buffer more than once. *)
C8_BufferedAtMostOnce ==
    \A k \in DOMAIN buffer_added : buffer_added[k] <= 1

(* The step of the summary job that dispatches *)
SummarySendStep ==
    /\ summary.pc = "send"
    /\ summary'.pc = "idle"

(* C9: a flush that found videos or a filtered count delivers exactly one
   summary message and leaves the day's list empty and the day's counter 0;
   a flush that found neither delivers nothing and clears nothing. *)
C9_FlushSendsAndClears ==
    [][/\ SummarySendStep =>
            /\ summary_sent' = summary_sent + 1
            /\ redis_videos'[today] = <<>>
            /\ redis_filtered'[today] = 0
       /\ (summary.pc = "idle" /\ summary' /= summary /\ summary'.pc = "idle") =>
            /\ summary_sent' = summary_sent
            /\ redisVars' = redisVars]_vars

(* C10: a flush whose dispatch did not deliver a message leaves the day's
   list and counter as they were, and entries leave the day's list or counter
   only in a step that delivers the summary. *)
C10_ClearOnlyAfterDispatch ==
    [][/\ (SummarySendStep /\ summary_sent' = summary_sent) => redisVars' = redisVars
       /\ ( \/ Len(redis_videos'[today]) < Len(redis_videos[today])
            \/ redis_filtered'[today] < redis_filtered[today] )
          => (SummarySendStep /\ summary_sent' = summary_sent + 1)]_vars

(* C10 witness: a flush found a video on the day's list, its dispatch raised,
   and the video is still on the list *)
C10_Witness ==
    /\ summary.pc = "idle"
    /\ summary.log = "Error sending daily summary"
    /\ redis_videos[today] /= <<>>

(* The date an operation called with date_str addresses *)
EffectiveDate(date_str) == IF date_str = NoneStr THEN today ELSE date_str

(* C11: an operation touches the list and counter of the date it addresses
   and of no other date, the date it addresses when called without one being
   the current UTC date; every entry of a date's list was stored on that date;
   a drain returns the entries and the count of the date it addresses. *)
C11_DayScoped ==
    [][/\ \A d \in Dates :
            (probe'.op /= "midnight" /\ d /= EffectiveDate(probe'.date_str))
            => /\ redis_videos'[d] = redis_videos[d]
               /\ redis_filtered'[d] = redis_filtered[d]
       /\ probe'.op = "midnight" => redisVars' = redisVars
       /\ probe'.op = "store_video" =>
            \E e \in {<<>>, <<probe'.video @@ [stored_at |-> today]>>} :
               redis_videos'[today] = e \o redis_videos[today]
       /\ probe'.op = "drain" =>
            LET l == redis_videos[EffectiveDate(probe'.date_str)]
            IN  /\ probe'.videos = [i \in 1..Len(l) |-> loads(l[i])]
                /\ probe'.count = redis_filtered[EffectiveDate(probe'.date_str)]
       /\ \A d \in Dates : \A i \in 1..Len(redis_videos'[d]) :
            redis_videos'[d][i].stored_at = d]_vars

(* C11 witness: with entries under both dates, the list of the earlier date
   was cleared by its date and the later date's entries are still there *)
C11_Witness ==
    /\ today = "D2"
    /\ probe.op = "clear_stored_videos"
    /\ probe.date_str = "D1"
    /\ probe.count > 0
    /\ redis_videos["D1"] = <<>>
    /\ redis_videos["D2"] /= <<>>
    /\ redis_filtered["D2"] > 0

(* C12: a drain changes neither list nor counter, and a drain that follows a
   drain of the same date returns the same videos and the same count. *)
C12_DrainReadOnly ==
    [][probe'.op = "drain" =>
         /\ redisVars' = redisVars
         /\ (probe.op = "drain" /\ probe.date_str = probe'.date_str)
            => /\ probe'.videos = probe.videos
               /\ probe'.count = probe.count]_vars

(* C12 witness: the second of two successive drains, of a list and a counter
   that are not empty *)
C12_Witness ==
    /\ probe.op = "drain"
    /\ probe.prev = "drain"
    /\ probe.videos /= <<>>
    /\ probe.count > 0

(* C13: a clear leaves the list of its date empty and the counter 0 and
   returns the length the list had; the drain that follows it returns no video
   and count 0. *)
C13_ClearDeletesBoth ==
    [][/\ probe'.op = "clear_stored_videos" =>
            /\ redis_videos'[EffectiveDate(probe'.date_str)] = <<>>
            /\ redis_filtered'[EffectiveDate(probe'.date_str)] = 0
            /\ probe'.count = Len(redis_videos[EffectiveDate(probe'.date_str)])
       /\ ( /\ probe.op = "clear_stored_videos"
            /\ probe'.op = "drain"
            /\ EffectiveDate(probe.date_str) = EffectiveDate(probe'.date_str) )
          => /\ probe'.videos = <<>>
             /\ probe'.count = 0]_vars

(* C13 witness: a drain right after a clear found nothing, while a date
   still has its counter *)
C13_Witness ==
    /\ probe.op = "drain"
    /\ probe.prev = "clear_stored_videos"
    /\ probe.videos = <<>>
    /\ probe.count = 0
    /\ \E d \in Dates : redis_filtered[d] > 0


(* C14: the classifier answers every link, and answers True exactly when the
   link begins with the host https://www.youtube.com followed by the path
   /watch?v=, whatever follows; so it answers False to no link, to /shorts/,
   m.youtube.com, youtu.be and upper-case links, and True to the bare prefix. *)
C14_ClassifierTotal ==
    probe.op = "_is_full_youtube_video" =>
      /\ probe.result \in BOOLEAN
      /\ probe.result =
           ( /\ Len(probe.video.link) >= 2
             /\ probe.video.link[1] = "https://www.youtube.com"
             /\ probe.video.link[2] = "/watch?v=" )
      /\ probe.video.link = <<>> => ~probe.result
      /\ (Len(probe.video.link) >= 2 /\ probe.video.link[2] = "/shorts/") => ~probe.result
      /\ (Len(probe.video.link) >= 1
            /\ probe.video.link[1] \in {"https://m.youtube.com", "https://youtu.be",
                                        "HTTPS://WWW.YOUTUBE.COM"}) => ~probe.result
      /\ probe.video.link = <<"https://www.youtube.com", "/watch?v=">> => probe.result

(* C14 witness: the classifier has answered True to the bare prefix *)
C14_Witness ==
    /\ probe.op = "_is_full_youtube_video"
    /\ probe.video.link = <<"https://www.youtube.com", "/watch?v=">>
    /\ probe.result


(* A step of toggle_channel_notifications or set_channel_notifications: no
   job of the three threads moves *)
NotifyCallStep ==
    /\ poll' = poll
    /\ sync' = sync
    /\ summary' = summary

(* C15: the stored notify flag of a channel changes only in a step of
   toggle_channel_notifications or set_channel_notifications, so it stays as
   the last such call left it. *)
C15_NotifyOnlyByToggle ==
    [][\A c \in ChannelIds :
         ( /\ subs[c] /= None
           /\ subs'[c] /= None
           /\ subs'[c].notify /= subs[c].notify )
         => NotifyCallStep]_vars


(* C17: a channel gets its record only in the save step of a channel-sync
   cycle handling it, the record then has notify=true, an empty last_video_id
   and no last_upload_at, and a record once there stays. *)
C17_CreatedWithDefaults ==
    [][\A c \in ChannelIds :
         /\ (subs[c] = None /\ subs'[c] /= None)
            => /\ sync.pc = "save"
               /\ sync'.pc = "check"
               /\ sync.channel.channel_id = c
               /\ subs'[c].notify = TRUE
               /\ subs'[c].last_video_id = ""
               /\ subs'[c].last_upload_at = None
         /\ subs[c] /= None => subs'[c] /= None]_vars

(* C17 witness: the running channel-sync cycle has created the record of UC1 *)
C17_Witness ==
    /\ sync.pc = "check"
    /\ Len(sync.newly_added) = 1
    /\ sync.newly_added[1].channel_id = "UC1"
    /\ subs["UC1"] /= None
    /\ subs["UC1"].notify


(* C16: a new-subscription message goes out only when init_mode is false and
   at most once per channel id, and a channel-sync cycle counts a channel as
   newly added only if the channel has no record in the store. *)
C16_OneMessagePerNewChannel ==
    [][/\ \A c \in ChannelIds :
            new_sub_sent'[c] > new_sub_sent[c]
            => /\ ~init_mode
               /\ new_sub_sent[c] = 0
               /\ new_sub_sent'[c] = 1
       /\ (sync.pc = "save" /\ sync'.pc = "check" /\ sync.is_new)
          => subs[sync.channel.channel_id] = None]_vars

(* C19: a channel-sync cycle ends only after it has handled every channel of
   its list, in the step that updates the sync timestamp and sends the
   new-subscription messages. *)
C19_ItemIsolation ==
    [][(sync.pc \in {"check", "save"} /\ sync'.pc = "idle")
       => /\ sync.pc = "check"
          /\ sync.idx > Len(sync.subscription_tuples)]_vars


(* C18: none of the three threads ever ends: every job is idle or inside a
   cycle. *)
C18_LoopsSurvive ==
    /\ poll.pc /= "dead"
    /\ sync.pc /= "dead"
    /\ summary.pc /= "dead"

(* C20: a reader that has passed the cache-validity check reads a cache that
   is still there, and goes on with the channels it read. *)
C20_NoInvalidatedRead ==
    [][(poll.pc = "cache_valid" /\ poll'.pc /= "cache_valid")
       => /\ channels_cache /= None
          /\ poll'.pc = "loop"
          /\ poll'.channels = channels_cache[1]]_vars

----------------------------------------------------------------------------
(* C21: startup gating.  No loop thread exists and no channel-sync, video-poll
   or summary cycle runs unless Firestore, Redis and the Telegram chat were all
   available when the process began; when one of them was not, startup fails
   and the process never serves. *)
C21_StartupGating ==
    LET available == process.firebase /\ process.redis /\ process.telegram
    IN  /\ ( \/ process.threads /= {}
             \/ poll.pc /= "idle"
             \/ sync.pc /= "idle"
             \/ summary.pc /= "idle" ) => available
        /\ ~available => process.phase /= "running"

----------------------------------------------------------------------------
(* C22: a job that runs past trigger times of its loop makes no trigger be
   skipped.  The runs of the job belong, in order, to the consecutive trigger
   times after the loop's start, one run each; no run starts before its
   trigger; and a run whose trigger is already due when the run before it ends
   starts at that very time, without a sleep. *)
C22_NoTriggerSkipped ==
    LET runs  == schedule.runs
        first == NextTrigger(schedule.since)
    IN  /\ \A i \in 1..Len(runs) :
             /\ runs[i].trigger = first + (i - 1) * CronPeriod
             /\ runs[i].started >= runs[i].trigger
             /\ (i > 1 /\ runs[i].trigger <= runs[i - 1].ended)
                  => runs[i].started = runs[i - 1].ended
        /\ schedule.pc \in {"wait", "job"}
             => schedule.next = first + Len(runs) * CronPeriod

(* a first run that lasted past the two triggers after its own, and the two
   overdue runs that followed it back to back *)
C22_Witness ==
    /\ Len(schedule.runs) = 3
    /\ schedule.runs[1].ended >= schedule.runs[3].trigger
    /\ schedule.runs[2].started = schedule.runs[1].ended
    /\ schedule.runs[3].started = schedule.runs[2].ended

----------------------------------------------------------------------------
(* The channel-sync cycle ends in this step, past its last channel *)
SyncEndStep ==
    /\ sync.pc = "check"
    /\ sync.idx > Len(sync.subscription_tuples)
    /\ sync'.pc = "idle"

(* The cycle fetched the whole subscription list and every channel of it has
   its record *)
SyncSucceeded ==
    /\ Len(sync.subscription_tuples) = Cardinality(Subscribed)
    /\ \A i \in 1..Len(sync.subscription_tuples) :
         subs[sync.subscription_tuples[i][1]] /= None

(* C23: last_subs_sync is written in exactly the channel-sync cycles that
   complete successfully, at their end, after every upsert: a step changes it
   only if it ends a cycle that fetched the whole subscription list and
   upserted every channel of it, and the end of such a cycle leaves it set. *)
C23_SyncTimeOnSuccess ==
    [][ /\ last_subs_sync' /= last_subs_sync => (SyncEndStep /\ SyncSucceeded)
        /\ (SyncEndStep /\ SyncSucceeded) => last_subs_sync' = SERVER_TIMESTAMP ]_vars

----------------------------------------------------------------------------
(* C24: in every state the registry can be in, get_channel(c) raises KeyError
   exactly when c has no document and otherwise returns the Channel of c's
   document, and channel_exists(c) is true exactly when get_channel(c) returns
   a Channel; from the cache or from Firestore alike. *)
C24_GetMatchesStore ==
    \A c \in ChannelIds :
      LET g == get_channel(FB, c, TRUE)
      IN  /\ (g.raised = "KeyError") <=> (subs[c] = None)
          /\ g.raised \in {"", "KeyError"}
          /\ subs[c] /= None => g.channel = from_doc(c, subs[c])
          /\ channel_exists(FB, c, TRUE) <=> (g.raised = "")

----------------------------------------------------------------------------
(* The methods of the registry that write *)
Mutations ==
    {"save_subscription", "save_video", "update_channel_last_video",
     "update_last_sync_time", "update_channel_notify_preference"}

(* C25: whatever is called on NullFirebaseService, with whatever arguments,
   no mutation raises and every mutation returns False; is_available is
   false; get_all_channels returns the empty list; channel_exists returns
   False for every id; get_channel is the only method that raises; and no
   call changes the registry. *)
C25_NullStandIn ==
    /\ stub.op \in Mutations => (stub.raised = "" /\ stub.result = FALSE)
    /\ stub.op = "is_available" => stub.result = FALSE
    /\ stub.op = "get_all_channels" => stub.channels = <<>>
    /\ stub.op = "channel_exists" => stub.result = FALSE
    /\ (stub.raised /= "") <=> (stub.op = "get_channel")
    /\ \A c \in ChannelIds : subs[c] = None
    /\ videos = {}
    /\ last_subs_sync = NoneStr
    /\ channels_cache = None

(* a save_subscription was called, and the channel_exists("UC1") called next
   was answered False *)
C25_Witness ==
    /\ stub.prev = "save_subscription"
    /\ stub.op = "channel_exists"
    /\ stub.channel_id = "UC1"
    /\ stub.result = FALSE

----------------------------------------------------------------------------
(* C26: whenever the latest entry of a polled channel is a short-form video
   that differs from the cursor the poll holds, however many cycles in a row,
   the step adds exactly 1 to the cycle's filtered count and leaves every
   channel document, the videos collection and the videos to buffer as they
   are, and the end of the cycle adds that count to the day's counter; the
   step that meets a full-form video differing from the cursor leaves the
   stored cursor at that video. *)
C26_ShortReclassified ==
    [][/\ \A c \in ChannelIds :
            NewForPoll(c) =>
              IF FullForm(last_polled'[c])
              THEN subs'[c].last_video_id = last_polled'[c].video_id
              ELSE /\ poll'.firestore_filtered_count = poll.firestore_filtered_count + 1
                   /\ subs' = subs
                   /\ videos' = videos
                   /\ poll'.new_videos = poll.new_videos
       /\ (poll.pc = "loop" /\ poll'.pc = "idle") =>
            /\ redis_filtered'[today] = redis_filtered[today] + poll.firestore_filtered_count
            /\ subs' = subs
            /\ videos' = videos]_vars

(* two cycles have each counted a short of UC1 and nothing else, and the cycle
   after them has met the full-form v2, never met before, with the cursor at
   v1: the cursor is at v2 *)
C26_Witness ==
    /\ ~init_mode
    /\ poll.pc = "loop"
    /\ poll.idx = 2
    /\ poll.channels_to_poll[1].channel_id = "UC1"
    /\ poll.channels_to_poll[1].last_video_id = "v1"
    /\ poll.firestore_filtered_count = 0
    /\ Len(poll.new_videos) = 1
    /\ poll.new_videos[1].video_id = "v2"
    /\ buffer_added[<<"UC1", "v2">>] = 0
    /\ redis_filtered[today] = 2
    /\ subs["UC1"].last_video_id = "v2"

----------------------------------------------------------------------------
(* The list a day's list becomes when the videos are pushed on it one by one *)
RECURSIVE Pushed(_, _, _)
Pushed(list, new_videos, date) ==
    IF new_videos = <<>> THEN list
    ELSE Pushed(<<new_videos[1] @@ [stored_at |-> date]>> \o list, Tail(new_videos), date)

(* C27: the accounting of one video-poll cycle.  The cycle starts with no
   video to buffer and a filtered count of 0; a channel step adds its latest
   entry to the videos to buffer exactly when the entry is a full-form
   discovery that is not bootstrap-suppressed, adds 1 to the filtered count
   exactly when it is a short-form discovery, and writes nothing to Redis; the
   end of the cycle pushes exactly those videos on today's list and adds
   exactly that count to today's counter, leaving the counter as it is when
   the count is 0 and the list as it is when there is no video; and the list
   and the counter change in no other step. *)
C27_CycleAccounting ==
    [][/\ (poll.pc = "idle" /\ poll'.pc = "loop") =>
            (poll'.new_videos = <<>> /\ poll'.firestore_filtered_count = 0)
       /\ \A c \in ChannelIds :
            PollStepOf(c) =>
              LET held == poll.channels_to_poll[poll.idx].last_video_id
                  accepted == /\ NewForPoll(c)
                              /\ FullForm(last_polled'[c])
                              /\ ~(held = "" /\ init_mode)
                  filtered == NewForPoll(c) /\ ~FullForm(last_polled'[c])
              IN  /\ redisVars' = redisVars
                  /\ poll'.new_videos =
                         IF accepted THEN Append(poll.new_videos, last_polled'[c])
                         ELSE poll.new_videos
                  /\ poll'.firestore_filtered_count =
                         IF filtered THEN poll.firestore_filtered_count + 1
                         ELSE poll.firestore_filtered_count
       /\ (poll.pc = "loop" /\ poll'.pc = "idle") =>
            /\ poll.idx > Len(poll.channels_to_poll)
            /\ redis_videos' = [redis_videos EXCEPT
                                  ![today] = Pushed(@, poll.new_videos, today)]
            /\ redis_filtered' = [redis_filtered EXCEPT
                                    ![today] = @ + poll.firestore_filtered_count]
            /\ poll.firestore_filtered_count = 0 => redis_filtered' = redis_filtered
            /\ poll.new_videos = <<>> => redis_videos' = redis_videos
       /\ redisVars' /= redisVars => (poll.pc = "loop" /\ poll'.pc = "idle")]_vars

(* the latest poll of UC1 met a full-form video and that of UC2 a short, and
   today's list holds that one video and today's counter is 1 *)
C27_Witness ==
    /\ poll.pc = "idle"
    /\ last_polled["UC1"] /= None
    /\ FullForm(last_polled["UC1"])
    /\ last_polled["UC2"] /= None
    /\ last_polled["UC2"].video_id = "s1"
    /\ Len(redis_videos[today]) = 1
    /\ redis_videos[today][1].video_id = last_polled["UC1"].video_id
    /\ redis_videos[today][1].channel_id = "UC1"
    /\ redis_filtered[today] = 1

----------------------------------------------------------------------------
(* C28: the step that accepts a full-form video with no published timestamp
   leaves a document of the video in the videos collection and the cursor at
   the video, and leaves last_upload_at, title, thumbnail and notify of the
   channel's document as they were; the step that accepts one whose timestamp
   parses leaves last_upload_at at that time and the cursor at the video. *)
C28_UploadTimeOnlyWhenParsed ==
    [][\A c \in ChannelIds :
         (NewForPoll(c) /\ FullForm(last_polled'[c])) =>
           LET video == last_polled'[c]
           IN  IF video.published_at = None
               THEN /\ video.video_id \in videos'
                    /\ subs'[c].last_video_id = video.video_id
                    /\ subs'[c].last_upload_at = subs[c].last_upload_at
                    /\ subs'[c].title = subs[c].title
                    /\ subs'[c].thumbnail = subs[c].thumbnail
                    /\ subs'[c].notify = subs[c].notify
               ELSE /\ subs'[c].last_upload_at = isoformat(fromisoformat(video.published_at))
                    /\ subs'[c].last_video_id = video.video_id]_vars

----------------------------------------------------------------------------
(* The cursors the cache holds for channel c *)
CachedCursors(c) ==
    IF channels_cache = None THEN {}
    ELSE {ch.last_video_id : ch \in {x \in Range(channels_cache[1]) : x.channel_id = c}}

(* C29: a poll cycle handles each of its channels once, and the step that
   handles a channel persists and buffers at most one video, the latest entry
   its fetch returned: every registry call it makes and every video it adds
   is for that entry.  No video reaches the videos collection, the day's list
   or a cursor in any other way: the list grows only by the videos a cycle
   gathered, and a cursor takes a new value only from the entry fetched in
   that step or from a cursor value read back from the registry. *)
C29_OnlyLatestAtFetch ==
    [][/\ poll.pc = "loop" =>
            \A i, j \in 1..Len(poll.channels_to_poll) :
               i /= j => poll.channels_to_poll[i].channel_id
                            /= poll.channels_to_poll[j].channel_id
       /\ \A c \in ChannelIds :
            PollStepOf(c) =>
              /\ \/ poll'.new_videos = poll.new_videos
                 \/ poll'.new_videos = Append(poll.new_videos, last_polled'[c])
              /\ \A k \in RegistryCalls(poll_calls') \ RegistryCalls(poll_calls) :
                   /\ k[2] = c
                   /\ last_polled'[c] /= None
                   /\ k[3] = last_polled'[c].video_id
              /\ \A v \in videos' \ videos :
                   last_polled'[c] /= None /\ v = last_polled'[c].video_id
       /\ videos' /= videos => \E c \in ChannelIds : PollStepOf(c)
       /\ \A d \in Dates :
            redis_videos'[d] /= redis_videos[d] =>
              \/ redis_videos'[d] = <<>>
              \/ /\ poll.pc = "loop"
                 /\ poll'.pc = "idle"
                 /\ redis_videos'[d] = Pushed(redis_videos[d], poll.new_videos, d)
       /\ \A c \in ChannelIds :
            ( /\ subs'[c] /= None
              /\ subs'[c].last_video_id /= ""
              /\ (subs[c] = None \/ subs'[c].last_video_id /= subs[c].last_video_id) )
            => \/ /\ PollStepWithVideo(c)
                  /\ subs'[c].last_video_id = last_polled'[c].video_id
               \/ /\ sync.pc = "save"
                  /\ sync.channel.channel_id = c
                  /\ subs'[c].last_video_id = sync.channel.last_video_id
       /\ (sync'.pc = "save" /\ sync.pc /= "save") =>
            LET c == sync'.channel.channel_id
            IN  sync'.channel.last_video_id
                   \in {""} \cup CachedCursors(c)
                        \cup (IF subs[c] = None THEN {} ELSE {subs[c].last_video_id})
       /\ (channels_cache' /= channels_cache /\ channels_cache' /= None) =>
            \A ch \in Range(channels_cache'[1]) :
               /\ subs[ch.channel_id] /= None
               /\ ch.last_video_id = subs[ch.channel_id].last_video_id]_vars

(* a cycle over two channels has handled both and holds one video of each,
   the entry each fetch returned *)
C29_Witness ==
    /\ poll.pc = "loop"
    /\ Len(poll.channels_to_poll) = 2
    /\ poll.idx = 3
    /\ Len(poll.new_videos) = 2
    /\ poll.new_videos[1] = last_polled["UC1"]
    /\ poll.new_videos[2] = last_polled["UC2"]
    /\ poll.new_videos[1].video_id /= poll.new_videos[2].video_id

----------------------------------------------------------------------------
(* C30: once get_all_channels has filled the cache and until the TTL has
   elapsed or a write has invalidated it, get_all_channels, get_channel and
   channel_exists are answered from the cache without a read of Firestore,
   whatever the collection holds, an empty collection included: the answer
   and the state after the call are the same whether Firestore can be read
   or not, and get_all_channels returns the cached list. *)
C30_CacheHit ==
    (channels_cache /= None /\ cache_timestamp = "fresh") =>
      /\ get_all_channels(FB, FALSE) = Ret(FB, channels_cache[1])
      /\ get_all_channels(FB, TRUE) = Ret(FB, channels_cache[1])
      /\ \A c \in ChannelIds :
           /\ get_channel(FB, c, FALSE) = get_channel(FB, c, TRUE)
           /\ channel_exists(FB, c, FALSE) = channel_exists(FB, c, TRUE)

----------------------------------------------------------------------------
(* C31: no run of the job of a loop, the first one after the thread starts
   included, begins before the first trigger time of the loop's schedule
   that follows the start of the thread. *)
C31_NoRunBeforeTrigger ==
    /\ \A i \in 1..Len(schedule.initial) :
         schedule.initial[i].started >= NextTrigger(schedule.entered)
    /\ \A i \in 1..Len(schedule.runs) :
         schedule.runs[i].started >= NextTrigger(schedule.entered)

(* C31, amended: the video-poll and the summary loop run their job only at or
   after a trigger time of their schedule that follows the start of the
   thread; the channel-sync thread runs its job exactly once as soon as it
   starts, before any trigger, and after that only at or after the trigger
   times that follow the end of that first run. *)
C31_OnlySyncRunsAtStart ==
    /\ \A i \in 1..Len(schedule.runs) :
         /\ schedule.runs[i].started >= schedule.runs[i].trigger
         /\ schedule.runs[i].trigger >= NextTrigger(schedule.since)
         /\ schedule.since >= schedule.entered
    /\ schedule.thread \in {"video_thread", "summary_thread"} =>
         (schedule.initial = <<>> /\ schedule.since = schedule.entered)
    /\ (schedule.thread = "channel_thread" /\ schedule.pc /= "start") =>
         /\ Len(schedule.initial) = 1
         /\ schedule.initial[1].started = schedule.entered
         /\ schedule.initial[1].started < NextTrigger(schedule.entered)
         /\ schedule.since = schedule.initial[1].ended

(* the channel-sync thread has run its job at its start and once more at the
   first trigger after that *)
C31_Witness ==
    /\ schedule.thread = "channel_thread"
    /\ Len(schedule.initial) = 1
    /\ Len(schedule.runs) = 1
    /\ schedule.runs[1].started >= schedule.runs[1].trigger

----------------------------------------------------------------------------
(* The page request of the call under way raised in this step *)
FetchErrorStep ==
    /\ youtube.pc = "paging"
    /\ youtube'.pc = "returned"
    /\ youtube'.error /= {}

(* The text carries one of the authentication phrases, in whatever case *)
AuthClass(error) ==
    \E phrase \in error : lower(phrase) \in {lower(auth_error) : auth_error \in auth_errors}

(* C32: within one fetch_all_subscriptions call, an error of the page request
   whose text is of the authentication kind clears the cached client and
   starts at most one re-authentication, any other error starts none and is
   handled with None, and either way the call ends at that error with the
   items gathered before it; a step of the call either appends a page or
   ends the call. *)
C32_OneReauthThenReturn ==
    [][/\ FetchErrorStep =>
            /\ youtube'.items = youtube.items
            /\ IF AuthClass(youtube'.error)
               THEN /\ youtube'.cleared = youtube.cleared + 1
                    /\ youtube'.reauth <= 1
               ELSE /\ youtube'.cleared = youtube.cleared
                    /\ youtube'.reauth = youtube.reauth
                    /\ youtube'._client = youtube._client
                    /\ youtube'.handled = NoneStr
       /\ youtube.pc = "paging" =>
            \/ youtube'.pc = "returned"
            \/ Len(youtube'.items) = Len(youtube.items) + 1]_vars

----------------------------------------------------------------------------
(* A flush has read a non-empty list of the current day and is about to dispatch *)
FlushHolds(d) ==
    /\ today = d
    /\ summary.pc = "send"
    /\ summary.stored_videos /= <<>>

(* The flush got its list through the dispatcher call *)
FlushDispatched ==
    /\ summary.pc = "idle"
    /\ summary.log = "Cleared videos and filtered count"

(* A step of the summary job leaves the list and counter of the other days alone *)
OtherDaysKept ==
    (summary' /= summary) =>
        \A d \in Dates \ {today} :
            /\ redis_videos'[d] = redis_videos[d]
            /\ redis_filtered'[d] = redis_filtered[d]

(* C33: with threads that keep running and a sink that accepts messages, a
   flush that runs on day D after videos were added to day D's list passes
   that list to the dispatcher; and a flush reads only the current day's list
   and leaves the list and counter of any other day as they were. *)
C33_BufferedEventuallyDispatched ==
    /\ \A d \in Dates : FlushHolds(d) ~> FlushDispatched
    /\ [][OtherDaysKept]_vars
    /\ [][(summary.pc = "idle" /\ summary'.pc = "send") =>
             /\ Len(summary'.stored_videos) = Len(redis_videos[today])
             /\ \A i \in 1..Len(summary'.stored_videos) :
                    summary'.stored_videos[i].video_id = redis_videos[today][i].video_id]_vars

----------------------------------------------------------------------------
(* A step that is a call of op for channel c by the direct caller *)
NotifyCallOf(op, c) ==
    /\ probe'.count /= probe.count
    /\ probe'.op = op
    /\ probe'.prev = c

(* The record of c after the step is the one before it with notify set to b *)
OnlyNotifySet(c, b) ==
    /\ subs'[c] = [subs[c] EXCEPT !.notify = b]
    /\ \A d \in ChannelIds \ {c} : subs'[d] = subs[d]
    /\ videos' = videos

(* C34: toggle_channel_notifications on a channel with a record sets the
   stored notify to the negation of the stored value, changes nothing else of
   the registry and returns True, so that two toggles in a row restore the
   value; on a channel without a record it returns False and changes nothing;
   set_channel_notifications(c, b) on a channel with a record leaves notify at
   b and returns True whatever the value was, so that repeating it changes
   nothing more, and on a channel without a record it returns False and
   changes nothing. *)
C34_ToggleNegatesSetIdempotent ==
    [][\A c \in ChannelIds :
         /\ NotifyCallOf("toggle_channel_notifications", c) =>
              IF subs[c] /= None
              THEN /\ OnlyNotifySet(c, ~subs[c].notify)
                   /\ probe'.result = TRUE
              ELSE /\ probe'.result = FALSE
                   /\ fbVars' = fbVars
         /\ NotifyCallOf("set_channel_notifications", c) =>
              IF subs[c] /= None
              THEN /\ OnlyNotifySet(c, probe'.video[1])
                   /\ probe'.result = TRUE
              ELSE /\ probe'.result = FALSE
                   /\ fbVars' = fbVars]_vars

(* A toggle has just returned True for a channel with a record and a cursor
   and left its notifications switched off *)
C34_Witness ==
    /\ probe.op = "toggle_channel_notifications"
    /\ probe.prev = "UC1"
    /\ probe.result = TRUE
    /\ subs["UC1"] /= None
    /\ subs["UC1"].notify = FALSE
    /\ subs["UC1"].last_video_id /= ""

----------------------------------------------------------------------------
(* The channels a poll cycle has taken to poll *)
Polled == {poll.channels_to_poll[i].channel_id : i \in 1..Len(poll.channels_to_poll)}

(* The latest call of the direct caller was set_channel_notifications(c, b)
   and it returned True *)
LastSet(c, b) ==
    /\ probe.op = "set_channel_notifications"
    /\ probe.prev = c
    /\ probe.video = Some(b)
    /\ probe.result = TRUE

(* C35: a poll cycle that starts while the latest preference call is a
   set_channel_notifications(c, False) that returned True does not poll c, and
   one that starts while it is a set_channel_notifications(c, True) that
   returned True polls c, whether or not the channel list was cached before
   the call. *)
C35_PollFollowsPreference ==
    [][(poll.pc = "idle" /\ poll'.pc = "loop") =>
         \A c \in ChannelIds :
           /\ LastSet(c, FALSE) => c \notin Polled'
           /\ LastSet(c, TRUE) => c \in Polled']_vars

----------------------------------------------------------------------------
(* The step of a flush that clears the day's list after its dispatch *)
FlushClearStep ==
    /\ summary.pc = "send"
    /\ summary'.pc = "idle"
    /\ summary'.log = "Cleared videos and filtered count"

(* C36: in every interleaving of poll cycles and flushes, the videos a flush
   deletes with clear_stored_videos are the videos of the list the same flush
   passed to the dispatcher, as many deleted as reported, so that a video
   stored between the read and the clear of a flush is not deleted unreported. *)
C36_ClearedWereReported ==
    [][FlushClearStep =>
         /\ Len(redis_videos[today]) = Len(summary.stored_videos)
         /\ \A i \in 1..Len(summary.stored_videos) :
              redis_videos[today][i].video_id = summary.stored_videos[i].video_id]_vars

----------------------------------------------------------------------------
(* The list installed as the cache shows every record of the store, with the
   notify the store holds *)
CacheShowsStore ==
    \A c \in ChannelIds :
        subs[c] /= None =>
            \E i \in 1..Len(channels_cache[1]) :
                /\ channels_cache[1][i].channel_id = c
                /\ channels_cache[1][i].notify = subs[c].notify

(* C37: when get_all_channels installs the list it read from the store as the
   cache, the list shows every record the store holds at that moment, also
   when a write of another loop and its cache invalidation fell between the
   read and the installation. *)
C37_SnapshotNotStale ==
    [][(channels_cache' /= channels_cache /\ channels_cache' /= None)
       => CacheShowsStore']_vars

----------------------------------------------------------------------------
(* C38: whatever the individual calls of the poll cycles returned, a channel
   whose stored cursor names a video has a record of that video in the videos
   collection, and every video on the pending buffer has a record there. *)
C38_CursorAndBufferHaveRecords ==
    /\ \A c \in ChannelIds :
         (subs[c] /= None /\ Truthy(subs[c].last_video_id))
         => subs[c].last_video_id \in videos
    /\ \A d \in Dates : \A i \in 1..Len(redis_videos[d]) :
         redis_videos[d][i].video_id \in videos

----------------------------------------------------------------------------
(* The video has an id and its link begins with the canonical watch prefix *)
CanonicalWithId(video) ==
    /\ Truthy(video.video_id)
    /\ video.link /= None
    /\ Len(video.link) >= 2
    /\ video.link[1] = "https://www.youtube.com"
    /\ video.link[2] = "/watch?v="

(* The ids of the feed entries that are full-form *)
CanonicalIds ==
    {e.yt_videoid : e \in {e \in FeedEntries : e.link = "watch" /\ Truthy(e.yt_videoid)}}

(* C39: every video of the pending buffer, and every video a poll cycle is
   about to buffer, has a non-empty id and a link that begins with the
   canonical watch prefix; every save_video and cursor call of a cycle names
   such a video; the videos collection and the stored cursors hold ids of such
   videos only, so that an entry without id or without a full-form link is
   never persisted, buffered or made the cursor. *)
C39_OnlyCanonicalPersisted ==
    /\ \A d \in Dates : \A i \in 1..Len(redis_videos[d]) :
         CanonicalWithId(redis_videos[d][i])
    /\ \A i \in 1..Len(poll.new_videos) : CanonicalWithId(poll.new_videos[i])
    /\ \A k \in RegistryCalls(poll_calls) : k[3] \in CanonicalIds
    /\ videos \subseteq CanonicalIds
    /\ \A c \in ChannelIds :
         subs[c] /= None => subs[c].last_video_id \in CanonicalIds \cup {""}

(* C39 witness: the feed has shown a short, which was counted as filtered,
   and a full-form video, which is on the buffer and is the cursor; the cycle
   under way has just met an entry without id *)
C39_Witness ==
    /\ redis_filtered[today] > 0
    /\ redis_videos[today] /= <<>>
    /\ subs["UC1"] /= None
    /\ subs["UC1"].last_video_id = redis_videos[today][1].video_id
    /\ poll.pc = "loop"
    /\ last_polled["UC1"] /= None
    /\ ~Truthy(last_polled["UC1"].video_id)

----------------------------------------------------------------------------
(* C40: when the store read of channel_exists fails in a channel-sync cycle
   for a channel that has a record, so that the cycle takes the channel for a
   new one, the save of that cycle leaves the stored last_video_id and notify
   of the channel as they were and the channel is not put among the newly
   added ones, for which the messages go out; when the read of get_channel
   fails, the cycle ends with the registry and the messages sent unchanged. *)
C40_ReadFailureKeepsRecord ==
    [][/\ ( /\ sync.pc = "save"
            /\ sync'.pc = "check"
            /\ sync.is_new
            /\ subs[sync.channel.channel_id] /= None )
          => /\ sync'.newly_added = sync.newly_added
             /\ subs'[sync.channel.channel_id].last_video_id
                   = subs[sync.channel.channel_id].last_video_id
             /\ subs'[sync.channel.channel_id].notify
                   = subs[sync.channel.channel_id].notify
       /\ ( /\ sync.pc = "check"
            /\ sync'.pc = "idle"
            /\ sync.idx <= Len(sync.subscription_tuples) )
          => /\ fbVars' = fbVars
             /\ new_sub_sent' = new_sub_sent]_vars
====
